---- MODULE Spec2Model ----
(***************************************************************************)
(* Conversation store (packages/shared/config/chat-mode.ts) and the        *)
(* client stream reducer (packages/common/hooks/agent-provider.tsx).       *)
(***************************************************************************)
EXTENDS Integers, Sequences, FiniteSets, TLC

\* ---------------------------------------------------------------- bounds
MaxItemId == 3
MaxThreadId == 2
MaxCalls == 6
MaxFrames == 2
MaxRuns == 2
MaxEvents == 2

NoId == 0
NoStatus == "none"
Fields == {"id", "threadId", "parentId", "branchRootId", "createdAt", "status", "text", "finalText"}

VARIABLES
    threads,            \* state.threads: thread ids in array order
    dbThreads,          \* db.threads: ids of the persisted threads
    threadItems,        \* state.threadItems: array of items
    dbItems,            \* db.threadItems: id -> persisted item
    branchSelections,   \* state.branchSelections: rootId -> selected id
    currentThreadId,    \* state.currentThreadId (NoId when null/undefined)
    batchQueue,         \* batchUpdateQueue.items: id -> item awaiting bulkPut
    batchTimer,         \* batchUpdateQueue.timeoutId is set
    inflight,           \* the async store call that is suspended at an await
    now,                \* Date.now()
    nextItemId,         \* nanoid(): ids of thread items are never handed out twice
    nextThreadId,       \* nanoid(): ids of threads are never handed out twice
    submittedThread,    \* item id -> the threadId handleSubmit built the item with
    calls,              \* number of store calls made by the application so far
    removed,            \* item id -> the update that was queued for it when it was deleted
    threadItemMap,      \* agent-provider's per-item accumulator: id -> partial item
    isGenerating,       \* state.isGenerating
    run,                \* the generation run of this tab (runAgent / the worker)
    deltaLog,           \* per accumulator entry: the deltas applied since it was created
    earlier,            \* the run that was still in flight when the current one started
    controller,         \* the response stream's controller and its __closed mark
    wire,               \* bytes enqueued on the response and not yet read
    sent,               \* the sendMessage calls made so far
    server,             \* executeStream
    consumer,           \* the read loop of runAgent on that response
    resolver,           \* the last resolution of a mode and its reason
    persist,            \* a streamed item on its way to db.threadItems, with the clock
    sync,               \* remote sync of one thread: mode, timers, operations in flight
    reducer,            \* one item under handleThreadItemUpdate: accumulator entry and store item
    task,               \* proSearchTask.execute: where it is suspended, what it emitted
    loop,               \* runAgent's read loop on one response body
    config              \* localStorage['chat-config'] and the setters that write it

storeVars == <<threads, dbThreads, threadItems, dbItems, branchSelections, currentThreadId,
               batchQueue, batchTimer, inflight>>
envVars == <<now, nextItemId, nextThreadId, submittedThread, calls, removed>>
wireVars == <<controller, wire, sent, server, consumer>>
unitVars == <<reducer, task, loop, config>>
sideVars == <<resolver, persist, sync, unitVars>>
runVars == <<threadItemMap, isGenerating, run, deltaLog, earlier, wireVars, sideVars>>
appVars == <<storeVars, envVars, threadItemMap, isGenerating, run, deltaLog, earlier>>
vars == <<storeVars, envVars, runVars>>

NoCall == [op |-> "none"]

\* ------------------------------------------------------------- helpers
SeqToSet(s) == {s[i] : i \in 1..Len(s)}

IdsOf(items) == {items[i].id : i \in 1..Len(items)}

FindItem(items, id) == CHOOSE it \in SeqToSet(items) : it.id = id

RemoveKey(f, k) == [x \in DOMAIN f \ {k} |-> f[x]]

PutKey(f, k, v) == [x \in DOMAIN f \cup {k} |-> IF x = k THEN v ELSE f[x]]

\* {...existing, ...partial}: a key present in the partial wins
Merge(existing, partial) ==
    [f \in Fields |-> IF f \in DOMAIN partial THEN partial[f] ELSE existing[f]]

BlankItem ==
    [id |-> NoId, threadId |-> NoId, parentId |-> NoId, branchRootId |-> NoId,
     createdAt |-> 0, status |-> NoStatus, text |-> <<>>, finalText |-> <<>>]

\* ------------------------------------------------ branching-utils
resolveBranchRootId(item) ==
    IF item.branchRootId # NoId THEN item.branchRootId
    ELSE IF item.parentId # NoId THEN item.parentId
    ELSE item.id

ensureBranchRootId(item, fallbackRootId) ==
    IF item.branchRootId # NoId THEN item
    ELSE [item EXCEPT !.branchRootId =
              IF fallbackRootId # NoId THEN fallbackRootId ELSE resolveBranchRootId(item)]

RECURSIVE InsertByCreatedAt(_, _)
InsertByCreatedAt(sorted, it) ==
    IF sorted = <<>> THEN <<it>>
    ELSE IF Head(sorted).createdAt <= it.createdAt
         THEN <<Head(sorted)>> \o InsertByCreatedAt(Tail(sorted), it)
         ELSE <<it>> \o sorted

RECURSIVE SortByCreatedAt(_)
SortByCreatedAt(s) ==
    IF s = <<>> THEN <<>>
    ELSE InsertByCreatedAt(SortByCreatedAt(SubSeq(s, 1, Len(s) - 1)), s[Len(s)])

buildBranchGroups(items) ==
    [root \in {resolveBranchRootId(items[i]) : i \in 1..Len(items)} |->
        SortByCreatedAt(SelectSeq(items, LAMBDA it : resolveBranchRootId(it) = root))]

\* ------------------------------------------------ pruneBranchSelections
\* variant: group[0] where the code takes group[group.length - 1]
GroupFallbackFirst(groups, rootId) ==
    IF rootId \in DOMAIN groups /\ Len(groups[rootId]) > 0
    THEN groups[rootId][1].id
    ELSE NoId

GroupFallback(groups, rootId) ==
    IF rootId \in DOMAIN groups /\ Len(groups[rootId]) > 0
    THEN groups[rootId][Len(groups[rootId])].id
    ELSE NoId

\* variant: the forEach over Object.entries is missing, stale entries stay
pruneWithoutRepair(items0, sel) ==
    LET items == [i \in 1..Len(items0) |-> ensureBranchRootId(items0[i], NoId)]
        groups == buildBranchGroups(items)
    IN  [threadItems |-> items,
         branchSelections |->
            [rootId \in DOMAIN sel \cup DOMAIN groups |->
                IF rootId \in DOMAIN sel THEN sel[rootId] ELSE GroupFallback(groups, rootId)]]

\* variant: the groups.forEach that defaults a missing selection is missing
pruneWithoutDefault(items0, sel) ==
    LET items == [i \in 1..Len(items0) |-> ensureBranchRootId(items0[i], NoId)]
        groups == buildBranchGroups(items)
        keep(rootId) ==
            IF rootId \in DOMAIN groups /\ sel[rootId] \in IdsOf(groups[rootId])
            THEN sel[rootId] ELSE GroupFallback(groups, rootId)
        kept == {rootId \in DOMAIN sel : keep(rootId) # NoId}
    IN  [threadItems |-> items,
         branchSelections |-> [rootId \in kept |-> keep(rootId)]]

pruneBranchSelections(items0, sel) ==
    LET items == [i \in 1..Len(items0) |-> ensureBranchRootId(items0[i], NoId)]
        groups == buildBranchGroups(items)
        validIds == IdsOf(items)
        hasSelected(rootId) ==
            /\ rootId \in DOMAIN groups
            /\ sel[rootId] \in IdsOf(groups[rootId])
        \* value of the entry after the forEach over Object.entries; NoId = deleted
        repaired(rootId) ==
            LET first == IF hasSelected(rootId) THEN sel[rootId]
                         ELSE GroupFallback(groups, rootId)
            IN  IF sel[rootId] \notin validIds THEN GroupFallback(groups, rootId) ELSE first
        kept == {rootId \in DOMAIN sel : repaired(rootId) # NoId}
    IN  [threadItems |-> items,
         branchSelections |->
            [rootId \in kept \cup DOMAIN groups |->
                IF rootId \in kept THEN repaired(rootId) ELSE GroupFallback(groups, rootId)]]

\* ------------------------------------------------ batched persistence
queueThreadItemForUpdate(threadItem) ==
    /\ batchQueue' = PutKey(batchQueue, threadItem.id, ensureBranchRootId(threadItem, NoId))
    /\ batchTimer' = TRUE

\* setTimeout callback: processBatchUpdate(); timeoutId = null
processBatchUpdate ==
    /\ batchTimer
    /\ dbItems' = [id \in DOMAIN dbItems \cup DOMAIN batchQueue |->
                      IF id \in DOMAIN batchQueue THEN batchQueue[id] ELSE dbItems[id]]
    /\ batchQueue' = << >>
    /\ batchTimer' = FALSE
    /\ UNCHANGED <<threads, dbThreads, threadItems, branchSelections, currentThreadId,
                   inflight>>
    /\ UNCHANGED <<envVars, runVars>>

\* ------------------------------------------------ store operations
createThread(threadId) ==
    /\ dbThreads' = dbThreads \cup {threadId}
    /\ threads' = Append(threads, threadId)
    /\ currentThreadId' = threadId
    /\ UNCHANGED <<threadItems, dbItems, branchSelections, batchQueue, batchTimer,
                   inflight>>

\* the (threadItem) arguments handleSubmit builds; its threadId is the thread of
\* the route, which the chat page has made the store's current thread
SubmittedItems ==
    \* new message: fresh id, no parent, rooted on itself
    {[BlankItem EXCEPT !.id = nextItemId, !.threadId = currentThreadId,
                       !.branchRootId = nextItemId,
                       !.createdAt = now, !.status = "QUEUED"] :
        t \in {x \in {currentThreadId} : nextItemId <= MaxItemId}}
    \cup
    \* branch of a displayed item: fresh id, the source's parent and root
    {[BlankItem EXCEPT !.id = nextItemId, !.threadId = currentThreadId,
                       !.parentId = src.parentId,
                       !.branchRootId = IF src.branchRootId # NoId THEN src.branchRootId
                                        ELSE src.id,
                       !.createdAt = now, !.status = "QUEUED"] :
        src \in {x \in SeqToSet(threadItems) :
                    nextItemId <= MaxItemId /\ x.threadId = currentThreadId}}
    \cup
    \* regenerate in place: the existing id, parent and root
    {[BlankItem EXCEPT !.id = src.id, !.threadId = currentThreadId,
                       !.parentId = src.parentId,
                       !.branchRootId = IF src.branchRootId # NoId THEN src.branchRootId
                                        ELSE src.id,
                       !.createdAt = now, !.status = "QUEUED"] :
        src \in {x \in SeqToSet(threadItems) : x.threadId = currentThreadId}}

\* createThreadItem up to `await db.threadItems.put`
createThreadItem(threadItem) ==
    LET threadId == IF threadItem.threadId # NoId THEN threadItem.threadId ELSE currentThreadId
        normalized == ensureBranchRootId([threadItem EXCEPT !.threadId = threadId],
                                         threadItem.branchRootId)
    IN  /\ inflight = NoCall
        /\ threadId # NoId
        /\ dbItems' = PutKey(dbItems, normalized.id, normalized)
        /\ inflight' = [op |-> "createThreadItem", stage |-> "set", item |-> normalized,
                        \* bookkeeping for the properties: the item in memory at the call
                        before |-> IF normalized.id \in IdsOf(threadItems)
                                   THEN FindItem(threadItems, normalized.id)
                                   ELSE BlankItem]
        /\ UNCHANGED <<threads, dbThreads, threadItems, branchSelections, currentThreadId,
                       batchQueue, batchTimer>>

\* createThreadItem: the set() after the put resolved
createThreadItemSet ==
    /\ inflight.op = "createThreadItem"
    /\ LET item == inflight.item
           replaced == [i \in 1..Len(threadItems) |->
                           IF threadItems[i].id = item.id THEN item ELSE threadItems[i]]
           items == IF item.id \in IdsOf(threadItems) THEN replaced
                    ELSE Append(threadItems, item)
           sel == PutKey(branchSelections, resolveBranchRootId(item), item.id)
           pruned == pruneBranchSelections(items, sel)
       IN  /\ threadItems' = pruned.threadItems
           /\ branchSelections' = pruned.branchSelections
    /\ inflight' = NoCall
    /\ UNCHANGED <<threads, dbThreads, dbItems, currentThreadId, batchQueue, batchTimer>>
    /\ UNCHANGED <<envVars, runVars>>

\* updateThreadItem(threadId, threadItem): the item it stores for a partial
UpdatedItem(items, threadId, partial) ==
    LET exists == partial.id \in IdsOf(items)
        existingItem == FindItem(items, partial.id)
        merged == IF exists
                  THEN [Merge(existingItem, partial) EXCEPT !.threadId = threadId]
                  ELSE Merge([BlankItem EXCEPT !.id = partial.id, !.threadId = threadId,
                                               !.createdAt = now], partial)
        fallbackRootId ==
            IF exists /\ existingItem.branchRootId # NoId THEN existingItem.branchRootId
            ELSE IF "branchRootId" \in DOMAIN partial THEN partial.branchRootId
            ELSE NoId
    IN  ensureBranchRootId(merged, fallbackRootId)

updateThreadItem(threadId, partial) ==
    LET updatedItem == UpdatedItem(threadItems, threadId, partial)
        replaced == [i \in 1..Len(threadItems) |->
                        IF threadItems[i].id = partial.id THEN updatedItem ELSE threadItems[i]]
        items == IF partial.id \in IdsOf(threadItems) THEN replaced
                 ELSE Append(threadItems, updatedItem)
        pruned == pruneBranchSelections(items, branchSelections)
    IN  /\ partial.id # NoId
        /\ threadId # NoId
        /\ threadItems' = pruned.threadItems
        /\ branchSelections' = pruned.branchSelections
        /\ queueThreadItemForUpdate(updatedItem)


\* deleteThreadItem up to `await db.threadItems.delete`
deleteThreadItem(threadItemId) ==
    /\ inflight = NoCall
    /\ currentThreadId # NoId
    /\ dbItems' = RemoveKey(dbItems, threadItemId)
    /\ inflight' = [op |-> "deleteThreadItem", stage |-> "set", id |-> threadItemId,
                    threadId |-> currentThreadId,
                    \* bookkeeping for the properties: the item as the caller saw it
                    onlyItemOfCurrent |->
                        /\ threadItemId \in IdsOf(threadItems)
                        /\ threadItemId \in DOMAIN dbItems
                        /\ \A i \in 1..Len(threadItems) :
                              threadItems[i].threadId = currentThreadId
                                  => threadItems[i].id = threadItemId
                        /\ \A id \in DOMAIN dbItems :
                              dbItems[id].threadId = currentThreadId => id = threadItemId
                        /\ FindItem(threadItems, threadItemId).threadId = currentThreadId
                        /\ dbItems[threadItemId].threadId = currentThreadId,
                    wasSelected |-> FALSE, rootId |-> NoId, remaining |-> 0]
    /\ UNCHANGED <<threads, dbThreads, threadItems, branchSelections, currentThreadId,
                   batchQueue, batchTimer>>
    /\ removed' = IF threadItemId \in DOMAIN batchQueue
                  THEN PutKey(removed, threadItemId, batchQueue[threadItemId])
                  ELSE removed
    /\ calls < MaxCalls /\ calls' = calls + 1
    /\ UNCHANGED <<now, nextItemId, nextThreadId, submittedThread, runVars>>

\* deleteThreadItem: set() filtering the item out, then the count is requested
deleteThreadItemSet ==
    /\ inflight.op = "deleteThreadItem" /\ inflight.stage = "set"
    /\ LET items == SelectSeq(threadItems, LAMBDA t : t.id # inflight.id)
           pruned == pruneBranchSelections(items, branchSelections)
           roots == {r \in DOMAIN branchSelections : branchSelections[r] = inflight.id}
       IN  /\ threadItems' = pruned.threadItems
           /\ branchSelections' = pruned.branchSelections
           /\ inflight' = [inflight EXCEPT
                  !.stage = "counted",
                  !.wasSelected = (inflight.id \in IdsOf(threadItems) /\ roots # {}),
                  !.rootId = IF roots # {} THEN CHOOSE r \in roots : TRUE ELSE NoId,
                  !.remaining = Cardinality({id \in DOMAIN dbItems :
                                                dbItems[id].threadId = inflight.threadId})]
    /\ UNCHANGED <<threads, dbThreads, dbItems, currentThreadId, batchQueue, batchTimer>>
    /\ UNCHANGED <<envVars, runVars>>

\* deleteThreadItem: remainingItems === 0 decides; db.threads.delete is issued
deleteThreadItemCounted ==
    /\ inflight.op = "deleteThreadItem" /\ inflight.stage = "counted"
    /\ IF inflight.remaining = 0
       THEN /\ dbThreads' = dbThreads \ {inflight.threadId}
            /\ inflight' = [inflight EXCEPT !.stage = "threadDeleted"]
       ELSE /\ dbThreads' = dbThreads
            /\ inflight' = [inflight EXCEPT !.stage = "returned"]
    /\ UNCHANGED <<threads, threadItems, dbItems, branchSelections, currentThreadId,
                   batchQueue, batchTimer>>
    /\ UNCHANGED <<envVars, runVars>>

\* deleteThreadItem: set() dropping the thread and moving the current thread
deleteThreadItemThread ==
    /\ inflight.op = "deleteThreadItem" /\ inflight.stage = "threadDeleted"
    /\ LET left == SelectSeq(threads, LAMBDA t : t # inflight.threadId)
       IN  /\ threads' = left
           /\ currentThreadId' = IF Len(left) > 0 THEN left[1] ELSE NoId
    /\ inflight' = [inflight EXCEPT !.stage = "returned"]
    /\ UNCHANGED <<dbThreads, threadItems, dbItems, branchSelections, batchQueue,
                   batchTimer>>
    /\ UNCHANGED <<envVars, runVars>>

\* the promise of the suspended call settles
callReturns ==
    /\ inflight.op # "none" /\ inflight.stage = "returned"
    /\ inflight' = NoCall
    /\ UNCHANGED <<threads, dbThreads, threadItems, dbItems, branchSelections,
                   currentThreadId, batchQueue, batchTimer>>
    /\ UNCHANGED <<envVars, runVars>>

\* removeFollowupThreadItems up to the last `await db.threadItems.delete`
removeFollowupThreadItems(threadItemId) ==
    /\ inflight = NoCall
    /\ threadItemId \in DOMAIN dbItems
    /\ LET threadItem == dbItems[threadItemId]
           followups == {id \in DOMAIN dbItems :
                            /\ dbItems[id].createdAt > threadItem.createdAt
                            /\ dbItems[id].threadId = threadItem.threadId}
       IN  /\ dbItems' = [id \in DOMAIN dbItems \ followups |-> dbItems[id]]
           /\ inflight' = [op |-> "removeFollowupThreadItems", stage |-> "set",
                           item |-> threadItem]
           /\ removed' = [id \in DOMAIN removed \cup (followups \cap DOMAIN batchQueue) |->
                             IF id \in followups \cap DOMAIN batchQueue THEN batchQueue[id]
                             ELSE removed[id]]
    /\ UNCHANGED <<threads, dbThreads, threadItems, branchSelections, currentThreadId,
                   batchQueue, batchTimer>>
    /\ calls < MaxCalls /\ calls' = calls + 1
    /\ UNCHANGED <<now, nextItemId, nextThreadId, submittedThread, runVars>>

removeFollowupThreadItemsSet ==
    /\ inflight.op = "removeFollowupThreadItems"
    /\ LET threadItem == inflight.item
           items == SelectSeq(threadItems,
                        LAMBDA t : t.createdAt <= threadItem.createdAt
                                   \/ t.threadId # threadItem.threadId)
           pruned == pruneBranchSelections(items, branchSelections)
       IN  /\ threadItems' = pruned.threadItems
           /\ branchSelections' = pruned.branchSelections
    /\ inflight' = NoCall
    /\ UNCHANGED <<threads, dbThreads, dbItems, currentThreadId, batchQueue, batchTimer>>
    /\ UNCHANGED <<envVars, runVars>>

\* deleteThread up to the second await
deleteThread(threadId) ==
    /\ inflight = NoCall
    /\ dbThreads' = dbThreads \ {threadId}
    /\ dbItems' = [id \in {x \in DOMAIN dbItems : dbItems[x].threadId # threadId} |-> dbItems[id]]
    /\ inflight' = [op |-> "deleteThread", stage |-> "set", threadId |-> threadId]
    /\ UNCHANGED <<threads, threadItems, branchSelections, currentThreadId,
                   batchQueue, batchTimer>>
    /\ calls < MaxCalls /\ calls' = calls + 1 /\ UNCHANGED <<now, nextItemId, nextThreadId, submittedThread, removed, runVars>>

deleteThreadSet ==
    /\ inflight.op = "deleteThread"
    /\ LET left == SelectSeq(threads, LAMBDA t : t # inflight.threadId)
           items == SelectSeq(threadItems, LAMBDA it : it.threadId # inflight.threadId)
           pruned == pruneBranchSelections(items, branchSelections)
       IN  /\ threads' = left
           /\ currentThreadId' = IF Len(left) > 0 THEN left[1] ELSE NoId
           /\ threadItems' = pruned.threadItems
           /\ branchSelections' = pruned.branchSelections
    /\ inflight' = NoCall
    /\ UNCHANGED <<dbThreads, dbItems, batchQueue, batchTimer>>
    /\ UNCHANGED <<envVars, runVars>>

\* db.threadItems.where('threadId').equals(threadId).toArray(): primary-key order
RECURSIVE ItemsInIdOrder(_, _)
ItemsInIdOrder(db, ids) ==
    IF ids = {} THEN <<>>
    ELSE LET least == CHOOSE id \in ids : \A other \in ids : id <= other
         IN  <<db[least]>> \o ItemsInIdOrder(db, ids \ {least})

\* loadThreadItems up to the await of the query
loadThreadItems(threadId) ==
    /\ inflight' = [op |-> "loadThreadItems", stage |-> "set",
                    items |-> ItemsInIdOrder(dbItems,
                                  {id \in DOMAIN dbItems : dbItems[id].threadId = threadId})]

loadThreadItemsSet ==
    /\ inflight.op = "loadThreadItems"
    /\ LET normalizedItems == [i \in 1..Len(inflight.items) |->
                                  ensureBranchRootId(inflight.items[i], NoId)]
           pruned == pruneBranchSelections(normalizedItems, branchSelections)
       IN  /\ threadItems' = pruned.threadItems
           /\ branchSelections' = pruned.branchSelections
    /\ inflight' = NoCall
    /\ UNCHANGED <<threads, dbThreads, dbItems, currentThreadId, batchQueue, batchTimer>>
    /\ UNCHANGED <<envVars, runVars>>

switchThread(threadId) ==
    /\ inflight = NoCall
    /\ currentThreadId' = threadId
    /\ loadThreadItems(threadId)
    /\ UNCHANGED <<threads, dbThreads, threadItems, dbItems, branchSelections,
                   batchQueue, batchTimer>>
    /\ calls < MaxCalls /\ calls' = calls + 1 /\ UNCHANGED <<now, nextItemId, nextThreadId, submittedThread, removed, runVars>>

selectBranch(rootThreadItemId, selectedThreadItemId) ==
    LET groups == buildBranchGroups(threadItems)
        containing == {r \in DOMAIN groups : rootThreadItemId \in IdsOf(groups[r])}
        found == rootThreadItemId \in DOMAIN groups \/ containing # {}
        resolvedRootId == IF rootThreadItemId \in DOMAIN groups THEN rootThreadItemId
                          ELSE CHOOSE r \in containing : TRUE
        sel == IF selectedThreadItemId \in IdsOf(groups[resolvedRootId])
               THEN PutKey(branchSelections, resolvedRootId, selectedThreadItemId)
               ELSE branchSelections
        pruned == pruneBranchSelections(threadItems, sel)
    IN  /\ rootThreadItemId # NoId /\ selectedThreadItemId # NoId
        /\ IF ~found
           THEN /\ branchSelections' = [r \in DOMAIN branchSelections \ {rootThreadItemId}
                                           |-> branchSelections[r]]
                /\ threadItems' = threadItems
           ELSE /\ threadItems' = pruned.threadItems
                /\ branchSelections' = pruned.branchSelections
        /\ UNCHANGED <<threads, dbThreads, dbItems, currentThreadId, batchQueue,
                       batchTimer, inflight>>
        /\ calls < MaxCalls /\ calls' = calls + 1 /\ UNCHANGED <<now, nextItemId, nextThreadId, submittedThread, removed, runVars>>

\* ------------------------------------------------ the store under its callers
\* updateContext(threadId, data): the partial it hands to updateThreadItem
\* (data.parentThreadItemId undefined; metadata is not part of the model)
updateContext(threadId, threadItemId) ==
    updateThreadItem(threadId, [id |-> threadItemId, parentId |-> NoId, threadId |-> threadId])

UpdateContextCall ==
    \E threadItemId \in DOMAIN submittedThread :
        /\ updateContext(submittedThread[threadItemId], threadItemId)
        /\ UNCHANGED <<threads, dbThreads, dbItems, currentThreadId, inflight>>
        /\ calls < MaxCalls /\ calls' = calls + 1 /\ UNCHANGED <<now, nextItemId, nextThreadId, submittedThread, removed, runVars>>

CreateThreadCall ==
    /\ nextThreadId <= MaxThreadId
    /\ createThread(nextThreadId)
    /\ nextThreadId' = nextThreadId + 1
    /\ calls < MaxCalls /\ calls' = calls + 1
    /\ UNCHANGED <<now, nextItemId, submittedThread, removed, runVars>>

\* handleSubmit: builds the optimistic item and calls createThreadItem
OptimisticSubmit(threadItem) ==
    /\ calls < MaxCalls /\ calls' = calls + 1
    /\ createThreadItem(threadItem)
    /\ nextItemId' = IF threadItem.id = nextItemId THEN nextItemId + 1 ELSE nextItemId
    /\ submittedThread' = PutKey(submittedThread, threadItem.id, threadItem.threadId)
    /\ now' = now + 1
    /\ UNCHANGED <<nextThreadId, removed>>

SubmitCall ==
    \E threadItem \in SubmittedItems :
        /\ OptimisticSubmit(threadItem)
        /\ UNCHANGED runVars

\* ------------------------------------------------ the stream reducer
NoRun ==
    [pc |-> "idle", path |-> "none", number |-> 0, threadId |-> NoId, threadItemId |-> NoId,
     parentThreadItemId |-> NoId, aborted |-> FALSE, frames |-> 0,
     \* bookkeeping for the properties
     abortedUpdates |-> 0, terminal |-> NoStatus, lastFrame |-> [type |-> "none"]]

Overlay(f, g) == [k \in DOMAIN f \cup DOMAIN g |-> IF k \in DOMAIN g THEN g[k] ELSE f[k]]

\* s.trim().length > 0
NonBlank(s) == \E i \in 1..Len(s) : s[i] # " "

\* the `answer` payloads a frame can carry: a delta, a snapshot, or both
AnswerPayloads ==
    {[text |-> <<"a">>], [text |-> <<"b">>],
     [fullText |-> <<"d">>],
     [finalText |-> <<"c">>, fullText |-> <<"d">>],
     [finalText |-> <<" ">>]}

StatusPayloads == {"PENDING", "COMPLETED"}

DoneStatuses == {"complete", "error", "aborted"}

\* variant of AnswerOf that appends the delta in front of the accumulated text
AnswerPrepending(prevItem, incomingAnswer) ==
    LET previousText == IF "text" \in DOMAIN prevItem THEN prevItem.text ELSE <<>>
        incomingText == IF "text" \in DOMAIN incomingAnswer THEN incomingAnswer.text ELSE <<>>
    IN  [text |-> incomingText \o previousText, finalText |-> previousText]

\* variant of AnswerOf that lets a fullText win over a finalText
AnswerPreferringFullText(prevItem, incomingAnswer) ==
    LET previousText == IF "text" \in DOMAIN prevItem THEN prevItem.text ELSE <<>>
        incomingText == IF "text" \in DOMAIN incomingAnswer THEN incomingAnswer.text ELSE <<>>
        resolved == IF "fullText" \in DOMAIN incomingAnswer /\ NonBlank(incomingAnswer.fullText)
                    THEN incomingAnswer.fullText
                    ELSE IF "finalText" \in DOMAIN incomingAnswer
                              /\ NonBlank(incomingAnswer.finalText)
                    THEN incomingAnswer.finalText
                    ELSE previousText \o incomingText
    IN  [text |-> resolved, finalText |-> resolved]

\* handleThreadItemUpdate: nextAnswer for an `answer` event
AnswerOf(prevItem, incomingAnswer) ==
    LET previousText == IF "text" \in DOMAIN prevItem THEN prevItem.text ELSE <<>>
        previousFinalText == IF "finalText" \in DOMAIN prevItem THEN prevItem.finalText
                             ELSE <<>>
        hasFinalText == /\ "finalText" \in DOMAIN incomingAnswer
                        /\ NonBlank(incomingAnswer.finalText)
        hasFullText == /\ "fullText" \in DOMAIN incomingAnswer
                       /\ NonBlank(incomingAnswer.fullText)
        incomingText == IF "text" \in DOMAIN incomingAnswer THEN incomingAnswer.text ELSE <<>>
        resolvedFinalText == IF hasFinalText THEN incomingAnswer.finalText
                             ELSE IF hasFullText THEN incomingAnswer.fullText
                             ELSE IF Len(previousFinalText) > 0 THEN previousFinalText
                             ELSE previousText
        resolvedText == IF hasFinalText THEN incomingAnswer.finalText
                        ELSE IF hasFullText THEN incomingAnswer.fullText
                        ELSE previousText \o incomingText
    IN  [text |-> resolvedText, finalText |-> resolvedFinalText]

\* a property read off an object that does not have it
Undefined == -1

\* handleThreadItemUpdate: the two counters written for a `metrics` event
MetricsOf(prevItem, incomingMetrics) ==
    [tokensUsed |-> IF "totalTokens" \in DOMAIN incomingMetrics
                    THEN incomingMetrics.totalTokens
                    ELSE IF "tokensUsed" \in DOMAIN prevItem THEN prevItem.tokensUsed
                    ELSE Undefined,
     generationDurationMs |-> IF "durationMs" \in DOMAIN incomingMetrics
                              THEN incomingMetrics.durationMs
                              ELSE IF "generationDurationMs" \in DOMAIN prevItem
                              THEN prevItem.generationDurationMs
                              ELSE Undefined]

\* handleThreadItemUpdate: the updatedItem it builds from the accumulator entry
UpdatedAccumulator(prevItem, threadId, threadItemId, eventType, eventData, parentThreadItemId) ==
    LET prevParentId == IF "parentId" \in DOMAIN prevItem THEN prevItem.parentId ELSE NoId
        prevRootId == IF "branchRootId" \in DOMAIN prevItem THEN prevItem.branchRootId ELSE NoId
        base == [id |-> threadItemId,
                 threadId |-> threadId,
                 parentId |-> IF parentThreadItemId # NoId THEN parentThreadItemId
                              ELSE prevParentId,
                 branchRootId |-> IF prevRootId # NoId THEN prevRootId
                                  ELSE IF parentThreadItemId # NoId THEN parentThreadItemId
                                  ELSE threadItemId,
                 createdAt |-> IF "createdAt" \in DOMAIN prevItem THEN prevItem.createdAt
                               ELSE now]
        event == IF eventType = "answer" THEN AnswerOf(prevItem, eventData)
                 ELSE IF eventType = "metrics" THEN MetricsOf(prevItem, eventData)
                 ELSE (eventType :> eventData)
    IN  Overlay(Overlay(prevItem, base), event)

handleThreadItemUpdate(threadId, threadItemId, eventType, eventData, parentThreadItemId) ==
    LET prevItem == IF threadItemId \in DOMAIN threadItemMap THEN threadItemMap[threadItemId]
                    ELSE << >>
        updatedItem == UpdatedAccumulator(prevItem, threadId, threadItemId, eventType,
                                          eventData, parentThreadItemId)
    IN  /\ threadItemMap' = PutKey(threadItemMap, threadItemId, updatedItem)
        /\ updateThreadItem(threadId, updatedItem)

\* variant of DoneStatus that completes the item whatever the frame says
DoneStatusAlwaysCompleted(status) == "COMPLETED"

\* the status a done frame's `status` field asks for
DoneStatus(status) ==
    IF status = "error" THEN "ERROR"
    ELSE IF status = "aborted" THEN "ABORTED"
    ELSE "COMPLETED"

AccumulatedText(threadItemId) ==
    IF threadItemId \in DOMAIN threadItemMap /\ "text" \in DOMAIN threadItemMap[threadItemId]
    THEN threadItemMap[threadItemId].text
    ELSE <<>>

\* bookkeeping: the deltas applied to an accumulator entry since it was created
LoggedDeltas(threadItemId, incomingAnswer) ==
    LET old == IF threadItemId \in DOMAIN deltaLog THEN deltaLog[threadItemId]
               ELSE [deltas |-> << >>, onlyDeltas |-> TRUE]
    IN  IF DOMAIN incomingAnswer = {"text"}
        THEN [old EXCEPT !.deltas = Append(old.deltas, incomingAnswer.text)]
        ELSE [old EXCEPT !.onlyDeltas = FALSE]

\* runAgent, frame loop: a frame of an EVENT_TYPES event carrying an answer
ReceiveAnswer(eventData) ==
    /\ run.pc = "streaming" /\ run.frames < MaxFrames
    /\ handleThreadItemUpdate(run.threadId, run.threadItemId, "answer", eventData,
                              run.parentThreadItemId)
    /\ deltaLog' = PutKey(deltaLog, run.threadItemId, LoggedDeltas(run.threadItemId, eventData))
    /\ run' = [run EXCEPT !.frames = @ + 1,
                          !.lastFrame = [type |-> "answer", data |-> eventData,
                                         prevText |-> AccumulatedText(run.threadItemId),
                                         hadEntry |-> run.threadItemId \in DOMAIN threadItemMap]]
    /\ UNCHANGED <<threads, dbThreads, dbItems, currentThreadId, inflight, isGenerating>>
    /\ UNCHANGED <<envVars, earlier, wireVars, sideVars>>

\* runAgent, frame loop: a frame of the `status` event
ReceiveStatus(status) ==
    /\ run.pc = "streaming" /\ run.frames < MaxFrames
    /\ handleThreadItemUpdate(run.threadId, run.threadItemId, "status", status,
                              run.parentThreadItemId)
    /\ deltaLog' = IF run.threadItemId \in DOMAIN deltaLog THEN deltaLog
                   ELSE PutKey(deltaLog, run.threadItemId,
                               [deltas |-> << >>, onlyDeltas |-> TRUE])
    /\ run' = [run EXCEPT !.frames = @ + 1,
                          !.terminal = IF status = "COMPLETED" THEN status ELSE @,
                          !.lastFrame = [type |-> "status", data |-> status,
                                         prevText |-> AccumulatedText(run.threadItemId),
                                         hadEntry |-> run.threadItemId \in DOMAIN threadItemMap]]
    /\ UNCHANGED <<threads, dbThreads, dbItems, currentThreadId, inflight, isGenerating>>
    /\ UNCHANGED <<envVars, earlier, wireVars, sideVars>>

\* runAgent, frame loop: a frame `event: done` with data.type = 'done'
ReceiveDone(status) ==
    /\ run.pc = "streaming" /\ run.frames < MaxFrames
    /\ isGenerating' = FALSE
    /\ threadItemMap' = RemoveKey(threadItemMap, run.threadItemId)
    /\ deltaLog' = RemoveKey(deltaLog, run.threadItemId)
    /\ updateThreadItem(run.threadId, [id |-> run.threadItemId, status |-> DoneStatus(status)])
    /\ run' = [run EXCEPT !.frames = @ + 1,
                          !.terminal = DoneStatus(status),
                          !.abortedUpdates = IF DoneStatus(status) = "ABORTED" THEN @ + 1 ELSE @,
                          !.lastFrame = [type |-> "done", data |-> status,
                                         prevText |-> AccumulatedText(run.threadItemId),
                                         hadEntry |-> run.threadItemId \in DOMAIN threadItemMap]]
    /\ UNCHANGED <<threads, dbThreads, dbItems, currentThreadId, inflight>>
    /\ UNCHANGED <<envVars, earlier, wireVars, sideVars>>

\* runAgent: reader.read() reports done, the loop breaks, finally runs
StreamEnds ==
    /\ run.pc = "streaming"
    /\ isGenerating' = FALSE
    /\ run' = [run EXCEPT !.pc = "ended"]
    /\ UNCHANGED <<storeVars, envVars, threadItemMap, deltaLog, earlier, wireVars, sideVars>>

\* runAgent: fetch resolves with an ok response that has a body
FetchResponds ==
    /\ run.pc = "fetching" /\ ~run.aborted
    /\ run' = [run EXCEPT !.pc = "streaming"]
    /\ UNCHANGED <<storeVars, envVars, threadItemMap, isGenerating, deltaLog, earlier, wireVars, sideVars>>

\* runAgent: !response.ok marks the item ERROR and throws; the catch marks it
\* ERROR again (same status, another error text)
FetchHttpError ==
    /\ run.pc = "fetching" /\ ~run.aborted
    /\ isGenerating' = FALSE
    /\ updateThreadItem(run.threadId, [id |-> run.threadItemId, status |-> "ERROR"])
    /\ run' = [run EXCEPT !.pc = "ended", !.terminal = "ERROR"]
    /\ UNCHANGED <<threads, dbThreads, dbItems, currentThreadId, inflight, threadItemMap,
                   deltaLog>>
    /\ UNCHANGED <<envVars, earlier, wireVars, sideVars>>

\* runAgent: the pending fetch rejects with AbortError; catch (streamError)
FetchAborted ==
    /\ run.pc = "fetching" /\ run.aborted
    /\ isGenerating' = FALSE
    /\ updateThreadItem(run.threadId, [id |-> run.threadItemId, status |-> "ABORTED"])
    /\ run' = [run EXCEPT !.pc = "ended", !.abortedUpdates = @ + 1]
    /\ UNCHANGED <<threads, dbThreads, dbItems, currentThreadId, inflight, threadItemMap,
                   deltaLog>>
    /\ UNCHANGED <<envVars, earlier, wireVars, sideVars>>

\* stopGeneration (the stop button, shown while isGenerating): abort() runs the
\* run's abort listener; a stream being read then rejects every read, which the
\* loop catches and retries
StopGeneration ==
    /\ isGenerating
    /\ run.pc \in {"fetching", "streaming", "working"} /\ ~run.aborted
    /\ isGenerating' = FALSE
    /\ updateThreadItem(run.threadId, [id |-> run.threadItemId, status |-> "ABORTED"])
    /\ run' = [run EXCEPT !.aborted = TRUE,
                          !.abortedUpdates = @ + 1,
                          !.terminal = "ABORTED",
                          !.pc = IF @ = "streaming" THEN "spinning"
                                 ELSE IF @ = "working" THEN "ended" ELSE @]
    /\ UNCHANGED <<threads, dbThreads, dbItems, currentThreadId, inflight, threadItemMap,
                   deltaLog>>
    /\ UNCHANGED <<envVars, earlier, wireVars, sideVars>>

\* useWorkflowWorker callback: a message of an EVENT_TYPES event
WorkerEvent ==
    /\ run.pc = "working" /\ run.frames < MaxFrames
    /\ \E eventType \in {"answer", "status"} :
        \E eventData \in IF eventType = "answer" THEN AnswerPayloads ELSE StatusPayloads :
            /\ handleThreadItemUpdate(run.threadId, run.threadItemId, eventType, eventData,
                                      run.parentThreadItemId)
            /\ deltaLog' = PutKey(deltaLog, run.threadItemId,
                              IF eventType = "answer"
                              THEN LoggedDeltas(run.threadItemId, eventData)
                              ELSE IF run.threadItemId \in DOMAIN deltaLog
                              THEN deltaLog[run.threadItemId]
                              ELSE [deltas |-> << >>, onlyDeltas |-> TRUE])
            /\ run' = [run EXCEPT
                   !.frames = @ + 1,
                   !.terminal = IF eventType = "status" /\ eventData = "COMPLETED"
                                THEN "COMPLETED" ELSE @,
                   !.lastFrame = [type |-> eventType, data |-> eventData,
                                  prevText |-> AccumulatedText(run.threadItemId),
                                  hadEntry |-> run.threadItemId \in DOMAIN threadItemMap]]
    /\ UNCHANGED <<threads, dbThreads, dbItems, currentThreadId, inflight, isGenerating>>
    /\ UNCHANGED <<envVars, earlier, wireVars, sideVars>>

\* useWorkflowWorker callback: a message with type 'done'
WorkerDone(status) ==
    /\ run.pc = "working"
    /\ isGenerating' = FALSE
    /\ threadItemMap' = RemoveKey(threadItemMap, run.threadItemId)
    /\ deltaLog' = RemoveKey(deltaLog, run.threadItemId)
    /\ run' = [run EXCEPT !.pc = "ended",
                          !.frames = @ + 1,
                          !.lastFrame = [type |-> "done", data |-> status,
                                         prevText |-> AccumulatedText(run.threadItemId),
                                         hadEntry |-> run.threadItemId \in DOMAIN threadItemMap]]
    /\ UNCHANGED <<storeVars, envVars, earlier, wireVars, sideVars>>

\* the home page creates the thread that the runs below write to
NewChat ==
    /\ threads = <<>>
    /\ CreateThreadCall

\* handleSubmit: the optimistic item, then runAgent up to its fetch, or the worker.
\* The send button is disabled only while isGenerating; runAgent installs a new
\* AbortController over the previous one without aborting it, so a run that is
\* still in flight goes on beside the new one
HandleSubmit ==
    /\ ~isGenerating
    /\ run.number < MaxRuns
    /\ \E threadItem \in SubmittedItems, path \in {"stream", "worker"} :
        /\ OptimisticSubmit(threadItem)
        /\ run' = [NoRun EXCEPT !.pc = IF path = "stream" THEN "fetching" ELSE "working",
                                !.path = path,
                                !.number = run.number + 1,
                                !.frames = run.frames,
                                !.threadId = threadItem.threadId,
                                !.threadItemId = threadItem.id,
                                !.parentThreadItemId = threadItem.parentId]
    /\ earlier' = IF run.pc \in {"fetching", "streaming"} THEN run ELSE earlier
    /\ isGenerating' = TRUE
    /\ UNCHANGED <<threadItemMap, deltaLog, wireVars, sideVars>>

\* the earlier run's loop: a further `event: done` frame on its stream
EarlierReceiveDone(status) ==
    /\ earlier.pc = "streaming" /\ earlier.frames < MaxFrames
    /\ isGenerating' = FALSE
    /\ threadItemMap' = RemoveKey(threadItemMap, earlier.threadItemId)
    /\ deltaLog' = RemoveKey(deltaLog, earlier.threadItemId)
    /\ updateThreadItem(earlier.threadId,
                        [id |-> earlier.threadItemId, status |-> DoneStatus(status)])
    /\ earlier' = [earlier EXCEPT !.frames = @ + 1, !.terminal = DoneStatus(status)]
    /\ UNCHANGED <<threads, dbThreads, dbItems, currentThreadId, inflight, run>>
    /\ UNCHANGED <<envVars, wireVars, sideVars>>

\* the earlier run's loop: reader.read() reports done, its finally runs
EarlierStreamEnds ==
    /\ earlier.pc = "streaming"
    /\ isGenerating' = FALSE
    /\ earlier' = [earlier EXCEPT !.pc = "ended"]
    /\ UNCHANGED <<storeVars, envVars, threadItemMap, deltaLog, run, wireVars, sideVars>>

\* the earlier run's fetch, aborted before it resolved, rejects with AbortError
EarlierFetchAborted ==
    /\ earlier.pc = "fetching" /\ earlier.aborted
    /\ isGenerating' = FALSE
    /\ updateThreadItem(earlier.threadId, [id |-> earlier.threadItemId, status |-> "ABORTED"])
    /\ earlier' = [earlier EXCEPT !.pc = "ended", !.abortedUpdates = @ + 1]
    /\ UNCHANGED <<threads, dbThreads, dbItems, currentThreadId, inflight, threadItemMap,
                   deltaLog, run>>
    /\ UNCHANGED <<envVars, wireVars, sideVars>>

\* ---------------------------------------- the server-push event stream
\* characters of a frame: the literals `event: ` and `data: ` and the JSON
\* punctuation are single symbols; LF is a newline and LS is U+2028
LF == "\n"
LS == "U+2028"

NewController == [invalidState |-> FALSE, closed |-> FALSE]

NewServer == [pc |-> "idle", data |-> << >>, aborted |-> FALSE, events |-> 0,
              \* bookkeeping for the properties; started: runWorkflow was called
              outcome |-> "none", call |-> [made |-> FALSE], started |-> FALSE]

\* runAgent after setIsGenerating(true): nothing read yet
NewConsumer == [pending |-> <<>>, buffer |-> <<>>, threadItemMap |-> << >>,
                text |-> <<>>, status |-> NoStatus, error |-> "", isGenerating |-> TRUE,
                response |-> [ok |-> TRUE],
                \* bookkeeping for the properties
                applied |-> <<>>, discarded |-> 0, taken |-> <<>>, partial |-> FALSE]

\* the requests (CompletionRequestType) the route hands to executeStream
Requests ==
    {[threadId |-> "t1", threadItemId |-> i, parentThreadItemId |-> "p1"] : i \in {"i1", "i2"}}

\* the payloads workflow.onAll passes to sendMessage: an answer delta, one with
\* a newline, one with a line separator, and one that cannot be serialized
ProgressPayloads(data) ==
    {[type |-> "answer", threadId |-> data.threadId, threadItemId |-> data.threadItemId,
      parentThreadItemId |-> data.parentThreadItemId, body |-> b, serializable |-> TRUE] :
        b \in {<<"a">>, <<"b", LF>>, <<"a", LS>>}}
    \cup
    {[type |-> "answer", threadId |-> data.threadId, threadItemId |-> data.threadItemId,
      parentThreadItemId |-> data.parentThreadItemId, body |-> <<"a">>,
      serializable |-> FALSE]}

\* variant of DonePayload that leaves the thread item out of the frame
DonePayloadWithoutItem(data, status, error) ==
    [type |-> "done", threadId |-> data.threadId, threadItemId |-> "undefined",
     parentThreadItemId |-> data.parentThreadItemId,
     body |-> IF status = "error" THEN <<status, error>> ELSE <<status>>,
     serializable |-> TRUE]

\* the payload of a terminal frame: executeStream 255-264, 274-283, 293-303
DonePayload(data, status, error) ==
    [type |-> "done", threadId |-> data.threadId, threadItemId |-> data.threadItemId,
     parentThreadItemId |-> data.parentThreadItemId,
     body |-> IF status = "error" THEN <<status, error>> ELSE <<status>>,
     serializable |-> TRUE]

\* JSON.stringify of a string: a newline becomes the escape \n, U+2028 stays raw
RECURSIVE Escaped(_)
Escaped(s) ==
    IF s = <<>> THEN <<>>
    ELSE <<IF Head(s) = LF THEN "\\n" ELSE Head(s)>> \o Escaped(Tail(s))

RECURSIVE Unescaped(_)
Unescaped(s) ==
    IF s = <<>> THEN <<>>
    ELSE <<IF Head(s) = "\\n" THEN LF ELSE Head(s)>> \o Unescaped(Tail(s))

\* JSON.stringify(sanitizedPayload)
stringify(payload) ==
    <<"{", payload.type, payload.threadId, payload.threadItemId, payload.parentThreadItemId>>
        \o Escaped(payload.body) \o <<"}">>

\* sendMessage: `event: ${payload.type}\ndata: ${JSON.stringify(...)}\n\n`
Frame(payload) ==
    <<"event: ", payload.type, LF, "data: ">> \o stringify(payload) \o <<LF, LF>>

\* TextEncoder.encode: U+2028 is three bytes, every other character here is one
RECURSIVE encode(_)
encode(s) ==
    IF s = <<>> THEN <<>>
    ELSE (IF Head(s) = LS THEN <<"E2", "80", "A8">> ELSE <<Head(s)>>) \o encode(Tail(s))

\* TextDecoder.decode(value, { stream: true }): an incomplete character is held back
RECURSIVE decode(_, _, _)
decode(pending, bytes, out) ==
    IF bytes = <<>> THEN [chars |-> out, pending |-> pending]
    ELSE LET seen == Append(pending, Head(bytes))
         IN  IF seen = <<"E2", "80", "A8">> THEN decode(<<>>, Tail(bytes), Append(out, LS))
             ELSE IF seen \in {<<"E2">>, <<"E2", "80">>} THEN decode(seen, Tail(bytes), out)
             ELSE decode(<<>>, Tail(bytes), Append(out, Head(bytes)))

\* variant of sendMessage that lets the sink's invalid-state error escape
sendMessageRethrowing(sink, payload) ==
    IF sink.invalidState
    THEN [controller |-> sink, enqueued |-> <<>>, wrote |-> "none",
          signalled |-> TRUE, raised |-> TRUE]
    ELSE IF ~payload.serializable
    THEN [controller |-> sink,
          enqueued |-> encode(Frame(DonePayload(payload, "error", "Failed to serialize payload"))),
          wrote |-> "fallback", signalled |-> FALSE, raised |-> FALSE]
    ELSE [controller |-> sink, enqueued |-> encode(Frame(payload)), wrote |-> "frame",
          signalled |-> FALSE, raised |-> FALSE]

\* variant of sendMessage whose fallback frame names no thread item
sendMessageAnonymousFallback(sink, payload) ==
    IF sink.closed
    THEN [controller |-> sink, enqueued |-> <<>>, wrote |-> "none",
          signalled |-> FALSE, raised |-> FALSE]
    ELSE IF sink.invalidState
    THEN [controller |-> [sink EXCEPT !.closed = TRUE], enqueued |-> <<>>,
          wrote |-> "none", signalled |-> TRUE, raised |-> FALSE]
    ELSE IF ~payload.serializable
    THEN [controller |-> sink,
          enqueued |-> encode(Frame([DonePayload(payload, "error", "Failed to serialize payload")
                                        EXCEPT !.threadItemId = "undefined"])),
          wrote |-> "fallback", signalled |-> FALSE, raised |-> FALSE]
    ELSE [controller |-> sink, enqueued |-> encode(Frame(payload)), wrote |-> "frame",
          signalled |-> FALSE, raised |-> FALSE]

\* sendMessage: what it leaves of the controller, the bytes it enqueues, and
\* whether anything escapes to the caller. A controller in the invalid state
\* makes enqueue throw a TypeError, also on the fallback frame
sendMessage(sink, payload) ==
    IF sink.closed
    THEN [controller |-> sink, enqueued |-> <<>>, wrote |-> "none",
          signalled |-> FALSE, raised |-> FALSE]
    ELSE IF sink.invalidState
    THEN [controller |-> [sink EXCEPT !.closed = TRUE], enqueued |-> <<>>,
          wrote |-> "none", signalled |-> TRUE, raised |-> FALSE]
    ELSE IF ~payload.serializable
    THEN [controller |-> sink,
          enqueued |-> encode(Frame(DonePayload(payload, "error", "Failed to serialize payload"))),
          wrote |-> "fallback", signalled |-> FALSE, raised |-> FALSE]
    ELSE [controller |-> sink, enqueued |-> encode(Frame(payload)), wrote |-> "frame",
          signalled |-> FALSE, raised |-> FALSE]

\* buffer.split('\n\n'): the pieces between the separators, the rest last
RECURSIVE split(_, _, _)
split(s, piece, pieces) ==
    IF s = <<>> THEN Append(pieces, piece)
    ELSE IF Len(s) >= 2 /\ s[1] = LF /\ s[2] = LF
    THEN split(SubSeq(s, 3, Len(s)), <<>>, Append(pieces, piece))
    ELSE split(Tail(s), Append(piece, Head(s)), pieces)

\* variant of Leftover that throws the unfinished frame away
LeftoverDropped(messages) == <<>>

\* buffer = messages.pop() || ''
Leftover(messages) == messages[Len(messages)]

\* the lines of a message as the regular expressions' ^ and $ see them with the
\* m flag: \n and U+2028 both end a line
RECURSIVE Lines(_, _, _)
Lines(s, line, lines) ==
    IF s = <<>> THEN Append(lines, line)
    ELSE IF Head(s) \in {LF, LS} THEN Lines(Tail(s), <<>>, Append(lines, line))
    ELSE Lines(Tail(s), Append(line, Head(s)), lines)

\* message.match(/^<prefix>(.+)$/m)[1], or <<>> when there is no match
Match(message, prefix) ==
    LET lines == Lines(message, <<>>, <<>>)
        hits == {i \in 1..Len(lines) : Len(lines[i]) >= 2 /\ lines[i][1] = prefix}
    IN  IF hits = {} THEN <<>>
        ELSE Tail(lines[CHOOSE i \in hits : \A j \in hits : i <= j])

\* JSON.parse accepts the text
IsJSON(s) ==
    /\ Len(s) >= 6
    /\ s[1] = "{" /\ s[Len(s)] = "}"
    /\ \A i \in 2..(Len(s) - 1) : s[i] \notin {"{", "}", LF}

\* JSON.parse(dataMatch[1])
parse(s) ==
    [type |-> s[2], threadId |-> s[3], threadItemId |-> s[4], parentThreadItemId |-> s[5],
     body |-> Unescaped(SubSeq(s, 6, Len(s) - 1))]

\* message.trim() is not empty
Trimmed(message) == \E i \in 1..Len(message) : message[i] \notin {LF, LS, " "}

\* variant of AfterJsonError in which a frame that does not parse ends the loop
AfterJsonErrorBreak(messages) == <<>>

\* catch (jsonError): the for-loop goes on with the messages that follow
AfterJsonError(messages) == messages

\* what the reducer is handed for a frame
Decoded(currentEvent, data) ==
    [event |-> currentEvent, threadId |-> data.threadId, threadItemId |-> data.threadItemId,
     parentThreadItemId |-> data.parentThreadItemId, body |-> data.body]

GenericError == "Something went wrong. Please try again."

\* variant of DoneErrorText that shows the generic text whatever the frame says
DoneErrorTextGeneric(body) == GenericError

\* runAgent 391-393: `data.error || 'Something went wrong. Please try again.'`
DoneErrorText(body) ==
    IF Len(body) >= 2 /\ body[2] # "" THEN body[2] ELSE GenericError

\* runAgent: the body of `for (const message of messages)` for a frame that parses
ApplyFrame(c, currentEvent, data) ==
    IF currentEvent = "answer"
    THEN LET prevItem == IF data.threadItemId \in DOMAIN c.threadItemMap
                         THEN c.threadItemMap[data.threadItemId] ELSE << >>
             updatedItem == Overlay(prevItem, AnswerOf(prevItem, [text |-> data.body]))
         IN  [c EXCEPT !.threadItemMap = PutKey(@, data.threadItemId, updatedItem),
                       !.text = updatedItem.text,
                       !.applied = Append(@, Decoded(currentEvent, data))]
    ELSE IF currentEvent = "done" /\ data.type = "done"
    THEN [c EXCEPT !.threadItemMap = RemoveKey(@, data.threadItemId),
                   !.isGenerating = FALSE,
                   !.status = DoneStatus(data.body[1]),
                   !.error = IF data.body[1] = "error" THEN DoneErrorText(data.body)
                             ELSE @,
                   !.applied = Append(@, Decoded(currentEvent, data))]
    ELSE c

\* runAgent: `for (const message of messages)`
RECURSIVE ApplyMessages(_, _)
ApplyMessages(c, messages) ==
    IF messages = <<>> THEN c
    ELSE LET message == Head(messages)
             eventMatch == Match(message, "event: ")
             dataMatch == Match(message, "data: ")
         IN  IF ~Trimmed(message) \/ eventMatch = <<>> \/ dataMatch = <<>>
             THEN ApplyMessages(c, Tail(messages))
             ELSE IF ~IsJSON(dataMatch)
             THEN ApplyMessages([c EXCEPT !.discarded = @ + 1], AfterJsonError(Tail(messages)))
             ELSE ApplyMessages(ApplyFrame(c, eventMatch[1], parse(dataMatch)),
                                Tail(messages))

\* runAgent: one turn of the read loop on the chunk reader.read() returned
Consume(c, value) ==
    LET decoded == decode(c.pending, value, <<>>)
        messages == split(c.buffer \o decoded.chars, <<>>, <<>>)
        buffer == Leftover(messages)
        after == ApplyMessages(c, SubSeq(messages, 1, Len(messages) - 1))
    IN  [after EXCEPT !.pending = decoded.pending,
                      !.buffer = buffer,
                      !.taken = @ \o value,
                      !.partial = @ \/ buffer # <<>> \/ decoded.pending # <<>>]

\* ------------------------------------------------- executeStream
Providers == {"google", "openrouter"}

\* the words a query is made of, as far as the classifiers of chat-mode.ts
\* tell them apart; a query has further words that no classifier looks at
Vocabulary ==
    {"chart", "image", "code", "bug", "python", "javascript", "solve", "equation", "prove",
     "latest", "news", "2025", "explain", "write", "story", "translate"}

MaxWords == 3

\* query.split(/\s+/).length for the queries of the model
Lengths == {5, 25, 40, 60}

\* a query: the words of the vocabulary in it and its number of tokens
Queries ==
    {[words |-> w, length |-> n] : w \in {v \in SUBSET Vocabulary : Cardinality(v) <= MaxWords},
                                   n \in Lengths}

\* /\b(image|photo|picture|screenshot|diagram|chart|graph|visual)\b/i.test(query)
imageWords(query) == query.words \cap {"image", "chart"} # {}

\* the entries of codeIndicators that lowerQuery.includes(): `javascript`
\* holds `java` as well
codeMatches(query) ==
    UNION {IF word = "javascript" THEN {"javascript", "java"}
           ELSE IF word \in {"code", "bug", "python"} THEN {word}
           ELSE {} : word \in query.words}

codeScore(query) == Cardinality(codeMatches(query))

\* variant of isCode that asks for three indicators
isCodeOfThree(query) == codeScore(query) >= 3

\* codeScore >= 2
isCode(query) == codeScore(query) >= 2

mathScore(query) == Cardinality(query.words \cap {"solve", "equation"})

\* mathScore >= 2 || /\b(prove|theorem|...)\b/i.test(query)
isMath(query) == mathScore(query) >= 2 \/ "prove" \in query.words

newsScore(query) == Cardinality(query.words \cap {"latest", "news"})

\* recentYearMentions || newsScore >= 2; 202[0-9] is a recent year whatever the date
isNews(query) == "2025" \in query.words \/ newsScore(query) >= 2

\* length > 50 || /\b(research|analyze|compare|comprehensive|detailed|explain)\b/i
isResearch(query) == query.length > 50 \/ "explain" \in query.words

\* the entries of creativeIndicators that lowerQuery.includes(): `javascript`
\* holds `script`
creativeMatches(query) ==
    UNION {IF word = "javascript" THEN {"script"}
           ELSE IF word \in {"write", "story"} THEN {word}
           ELSE {} : word \in query.words}

isCreative(query) == Cardinality(creativeMatches(query)) >= 2

\* /\b(translate|translation|language)\b/i.test(query) && length < 30
isTranslation(query) == "translate" \in query.words /\ query.length < 30

\* variant of selectModelForQuery that looks at math before code
selectModelForQueryMathFirst(query, hasImage) ==
    IF hasImage \/ imageWords(query) THEN "GEMINI_2_5_FLASH"
    ELSE IF isMath(query) THEN "DEEPSEEK_R1"
    ELSE IF isCode(query) THEN "DEEPSEEK_CHAT_V3_1"
    ELSE IF isNews(query) THEN "LONGCAT_FLASH_CHAT"
    ELSE IF isResearch(query) THEN "GEMINI_2_5_PRO"
    ELSE IF isCreative(query) THEN "GLM_4_5_AIR"
    ELSE IF isTranslation(query) THEN "GEMINI_2_5_FLASH"
    ELSE IF query.length < 20 THEN "GEMINI_2_5_FLASH"
    ELSE "DEEPSEEK_CHAT_V3_1"

selectModelForQuery(query, hasImage) ==
    IF hasImage \/ imageWords(query) THEN "GEMINI_2_5_FLASH"
    ELSE IF isCode(query) THEN "DEEPSEEK_CHAT_V3_1"
    ELSE IF isMath(query) THEN "DEEPSEEK_R1"
    ELSE IF isNews(query) THEN "LONGCAT_FLASH_CHAT"
    ELSE IF isResearch(query) THEN "GEMINI_2_5_PRO"
    ELSE IF isCreative(query) THEN "GLM_4_5_AIR"
    ELSE IF isTranslation(query) THEN "GEMINI_2_5_FLASH"
    ELSE IF query.length < 20 THEN "GEMINI_2_5_FLASH"
    ELSE "DEEPSEEK_CHAT_V3_1"

CodingReason == "Optimized for coding tasks"
GeneralReason == "Balanced performance for general queries"

getModelSelectionReason(query, selectedModel) ==
    IF selectedModel = "GEMINI_2_5_FLASH"
    THEN IF "image" \in query.words THEN "Multimodal capabilities for image analysis"
         ELSE "Fast response for quick queries"
    ELSE IF selectedModel = "GEMINI_2_5_PRO" THEN "Deep research and comprehensive analysis"
    ELSE IF selectedModel = "DEEPSEEK_CHAT_V3_1"
    THEN IF "code" \in query.words THEN CodingReason ELSE GeneralReason
    ELSE IF selectedModel = "DEEPSEEK_R1" THEN "Advanced reasoning with chain-of-thought"
    ELSE IF selectedModel = "LONGCAT_FLASH_CHAT"
    THEN "Real-time information with internet access"
    ELSE IF selectedModel = "GLM_4_5_AIR" THEN "Creative content generation"
    ELSE "General-purpose model"

selectOpenRouterFallback(query) ==
    IF isCode(query) THEN "DEEPSEEK_CHAT_V3_1"
    ELSE IF isMath(query) THEN "DEEPSEEK_R1"
    ELSE IF isNews(query) THEN "LONGCAT_FLASH_CHAT"
    ELSE IF isCreative(query) THEN "GLM_4_5_AIR"
    ELSE "DEEPSEEK_CHAT_V3_1"

selectGeminiFallback(query, hasImage) ==
    IF hasImage THEN "GEMINI_2_5_FLASH"
    ELSE IF query.length > 50 THEN "GEMINI_2_5_PRO"
    ELSE "GEMINI_2_5_FLASH"

\* the prompts of the requests executeStream is given: one for each answer of
\* selectModelForQuery
Prompts ==
    {[words |-> {}, length |-> 5], [words |-> {"chart"}, length |-> 5],
     [words |-> {"bug", "python"}, length |-> 5], [words |-> {"prove"}, length |-> 25],
     [words |-> {"latest", "news"}, length |-> 5], [words |-> {"explain"}, length |-> 60],
     [words |-> {"write", "story"}, length |-> 25]}

NoResolution == [made |-> FALSE]

\* resolving the mode of a question and the reason shown for it:
\* selectModelForQuery, then getModelSelectionReason on its answer; one question
\* is followed at a time
ResolveMode(query, hasImage) ==
    /\ ~resolver.made
    /\ LET mode == selectModelForQuery(query, hasImage)
       IN  resolver' = [made |-> TRUE, query |-> query, hasImage |-> hasImage, mode |-> mode,
                        reason |-> getModelSelectionReason(query, mode)]
    /\ UNCHANGED <<appVars, wireVars, persist, sync, unitVars>>

\* getProviderForMode: the provider of getModelFromChatMode(mode) in the models
\* table; a mode without a model of its own is served by GEMINI_2_5_FLASH
getProviderForMode(mode) ==
    IF mode \in {"DEEPSEEK_CHAT_V3_1", "DEEPSEEK_R1", "LONGCAT_FLASH_CHAT", "GLM_4_5_AIR"}
    THEN "openrouter"
    ELSE "google"

\* a result without a `message`
NoMessage == "undefined"

ToOpenRouter == "Fallback to OpenRouter because Gemini API key is missing"

ToGemini == "Fallback to Gemini because OpenRouter API key is missing"

Available(mode, changed, message) ==
    [threw |-> FALSE, credential |-> "none", mode |-> mode, changed |-> changed,
     message |-> message]

Unavailable(credential) ==
    [threw |-> TRUE, credential |-> credential, mode |-> "none", changed |-> FALSE,
     message |-> NoMessage]

\* variant of ensureProviderAvailability that falls back to OpenRouter for an
\* image question too
ensureProviderAvailabilityIgnoringImage(mode, query, hasImageAttachment, apiKeys) ==
    LET provider == getProviderForMode(mode)
    IN  IF provider \in apiKeys THEN Available(mode, FALSE, NoMessage)
        ELSE IF provider = "google"
        THEN LET fallbackMode == selectOpenRouterFallback(query)
             IN  IF getProviderForMode(fallbackMode) \notin apiKeys
                 THEN Unavailable("OPENROUTER_API_KEY")
                 ELSE Available(fallbackMode, TRUE, ToOpenRouter)
        ELSE LET fallbackMode == selectGeminiFallback(query, hasImageAttachment)
             IN  IF getProviderForMode(fallbackMode) \notin apiKeys
                 THEN Unavailable("GEMINI_API_KEY")
                 ELSE Available(fallbackMode, TRUE, ToGemini)

\* variant of ensureProviderAvailability that does not look for the key of the
\* provider it falls back to
ensureProviderAvailabilityUnchecked(mode, query, hasImageAttachment, apiKeys) ==
    LET provider == getProviderForMode(mode)
    IN  IF provider \in apiKeys THEN Available(mode, FALSE, NoMessage)
        ELSE IF provider = "google"
        THEN IF hasImageAttachment THEN Unavailable("GEMINI_API_KEY")
             ELSE Available(selectOpenRouterFallback(query), TRUE, ToOpenRouter)
        ELSE Available(selectGeminiFallback(query, hasImageAttachment), TRUE, ToGemini)

\* ensureProviderAvailability; apiKeys are the providers getProviderApiKey finds
\* a key for
ensureProviderAvailability(mode, query, hasImageAttachment, apiKeys) ==
    LET provider == getProviderForMode(mode)
    IN  IF provider \in apiKeys THEN Available(mode, FALSE, NoMessage)
        ELSE IF provider = "google"
        THEN IF hasImageAttachment THEN Unavailable("GEMINI_API_KEY")
             ELSE LET fallbackMode == selectOpenRouterFallback(query)
                      fallbackProvider == getProviderForMode(fallbackMode)
                  IN  IF fallbackProvider \notin apiKeys
                      THEN Unavailable("OPENROUTER_API_KEY")
                      ELSE Available(fallbackMode, TRUE, ToOpenRouter)
        ELSE IF provider = "openrouter"
        THEN LET fallbackMode == selectGeminiFallback(query, hasImageAttachment)
                 fallbackProvider == getProviderForMode(fallbackMode)
             IN  IF fallbackProvider \notin apiKeys
                 THEN Unavailable("GEMINI_API_KEY")
                 ELSE Available(fallbackMode, TRUE, ToGemini)
        ELSE Available(mode, FALSE, NoMessage)

NoAvailabilityCall == [made |-> FALSE]

\* variant of TerminalStatus that reports every failure as an error
TerminalStatusAlwaysError(aborted) == "error"

\* executeStream, catch: the abort signal is looked at first
TerminalStatus(aborted) == IF aborted THEN "aborted" ELSE "error"

\* a sendMessage call of executeStream and what it does to the sink
Send(payload) ==
    LET result == sendMessage(controller, payload)
    IN  /\ controller' = result.controller
        /\ wire' = wire \o result.enqueued
        /\ sent' = Append(sent, [payload |-> payload,
                                 open |-> ~controller.invalidState /\ ~controller.closed,
                                 enqueued |-> result.enqueued,
                                 wrote |-> result.wrote,
                                 signalled |-> result.signalled,
                                 raised |-> result.raised])

\* executeStream up to `await workflow.start`, or through its catch when
\* ensureProviderAvailability throws
ExecuteStream(data, requestedMode, query, hasImageAttachment, apiKeys) ==
    /\ server.pc = "idle"
    /\ LET auto == requestedMode = "auto"
           resolvedMode == IF auto THEN selectModelForQuery(query, hasImageAttachment)
                           ELSE requestedMode
           fallback == ensureProviderAvailability(resolvedMode, query, hasImageAttachment,
                                                  apiKeys)
           call == IF auto
                   THEN [made |-> TRUE, mode |-> resolvedMode, query |-> query,
                         hasImageAttachment |-> hasImageAttachment, apiKeys |-> apiKeys,
                         result |-> fallback]
                   ELSE NoAvailabilityCall
       IN  IF auto /\ fallback.threw
           THEN /\ Send(DonePayload(data, TerminalStatus(server.aborted), fallback.credential))
                /\ server' = [server EXCEPT !.pc = "finished", !.data = data,
                                            !.outcome = "failed", !.call = call]
           ELSE /\ server' = [server EXCEPT !.pc = "running", !.data = data, !.call = call,
                                            !.started = TRUE]
                /\ UNCHANGED <<controller, wire, sent>>
    /\ UNCHANGED <<consumer, appVars, sideVars>>

\* workflow.onAll: the workflow emits a progress event
WorkflowEvent ==
    /\ server.pc = "running" /\ server.events < MaxEvents
    /\ \E payload \in ProgressPayloads(server.data) : Send(payload)
    /\ server' = [server EXCEPT !.events = @ + 1, !.call = NoAvailabilityCall]
    /\ UNCHANGED <<consumer, appVars, sideVars>>

\* workflow.start resolves
WorkflowCompletes ==
    /\ server.pc = "running"
    /\ Send(DonePayload(server.data, "complete", ""))
    /\ server' = [server EXCEPT !.pc = "finished", !.outcome = "completed",
                                !.call = NoAvailabilityCall]
    /\ UNCHANGED <<consumer, appVars, sideVars>>

\* workflow.start rejects: catch (error)
WorkflowFails ==
    /\ server.pc = "running"
    /\ Send(DonePayload(server.data, TerminalStatus(server.aborted), "error.message"))
    /\ server' = [server EXCEPT !.pc = "finished", !.outcome = "failed",
                                !.call = NoAvailabilityCall]
    /\ UNCHANGED <<consumer, appVars, sideVars>>

\* the caller aborts the abortController it gave to executeStream
AbortRequest ==
    /\ server.pc = "running" /\ ~server.aborted
    /\ server' = [server EXCEPT !.aborted = TRUE]
    /\ UNCHANGED <<controller, wire, sent, consumer, appVars, sideVars>>

\* the response stream is closed under the running workflow: from now on
\* controller.enqueue throws `Invalid state`
SinkCloses ==
    /\ server.pc = "running" /\ ~controller.invalidState
    /\ controller' = [controller EXCEPT !.invalidState = TRUE]
    /\ UNCHANGED <<wire, sent, server, consumer, appVars, sideVars>>

\* runAgent: reader.read() returns the next n bytes of the response
Read(n) ==
    /\ n \in 1..Len(wire)
    /\ consumer' = Consume(consumer, SubSeq(wire, 1, n))
    /\ wire' = SubSeq(wire, n + 1, Len(wire))
    /\ UNCHANGED <<controller, sent, server, appVars, sideVars>>

OwnKeyText ==
    "You have reached the daily limit of requests. Please try again tomorrow or Use your own API key."
SignInText ==
    "You have reached the daily limit of requests. Please sign in to enjoy more requests."

\* runAgent, `if (!response.ok)`: the text put on the item before the throw
ResponseErrorText(status, isSignedIn) ==
    IF status = 429 /\ isSignedIn THEN OwnKeyText
    ELSE IF status = 429 /\ ~isSignedIn THEN SignInText
    ELSE "response.text"

\* runAgent, catch (streamError) of `HTTP error! status: ${status}`: the text
\* put on the item
CaughtErrorText(status) ==
    IF status = 429 THEN OwnKeyText ELSE GenericError

\* the route answers with an HTTP error instead of calling executeStream:
\* runAgent sets the item twice, before its throw and in its catch
ResponseNotOk(status, isSignedIn) ==
    /\ server.pc = "idle" /\ consumer.response.ok
    /\ LET thrown == [consumer EXCEPT !.isGenerating = FALSE,
                                      !.status = "ERROR",
                                      !.error = ResponseErrorText(status, isSignedIn)]
       IN  consumer' = [thrown EXCEPT !.isGenerating = FALSE,
                                      !.status = "ERROR",
                                      !.error = CaughtErrorText(status),
                                      !.response = [ok |-> FALSE, status |-> status,
                                                    isSignedIn |-> isSignedIn]]
    /\ server' = [server EXCEPT !.pc = "rejected"]
    /\ UNCHANGED <<controller, wire, sent, appVars, sideVars>>

InitWire ==
    /\ controller = NewController
    /\ wire = <<>>
    /\ sent = <<>>
    /\ server = NewServer
    /\ consumer = NewConsumer

\* ------------------------------------------------- a streamed item and db.threadItems
\* milliseconds
BATCH_PROCESS_INTERVAL == 500
DB_UPDATE_INTERVAL == 1000

MaxTicks == 4
MaxUpdates == 3

NoTimeout == -1

\* one thread item while its run streams: the versions count the updates of
\* the item, 0 is no item; transactions are the requests db.threadItems has
\* been given and has not finished, which it runs in the order it got them
NewPersist ==
    [clock |-> 0, lastDbUpdate |-> 0, version |-> 0, memory |-> 0, queue |-> 0,
     timeoutId |-> NoTimeout, transactions |-> <<>>, db |-> 0,
     \* bookkeeping for the properties: the times of the writes to db, and the
     \* number of events for which shouldPersistToDB was true
     writes |-> <<>>, flagged |-> 0]

\* queueThreadItemForUpdate: the timer is set when none is pending
queueTimeout(p) ==
    IF p.timeoutId # NoTimeout THEN p.timeoutId ELSE p.clock + BATCH_PROCESS_INTERVAL

\* runAgent reads a recognised event of the item: shouldPersistToDB is worked
\* out and handed to handleThreadItemUpdate, which calls updateThreadItem with
\* persistToDB: true whatever it was handed; updateThreadItem sets the item in
\* the store and queues it
StreamEvent ==
    /\ persist.version < MaxUpdates
    /\ LET shouldPersistToDB == persist.clock - persist.lastDbUpdate >= DB_UPDATE_INTERVAL
           updatedItem == persist.version + 1
       IN  persist' = [persist EXCEPT
                          !.version = updatedItem,
                          !.memory = updatedItem,
                          !.queue = updatedItem,
                          !.timeoutId = queueTimeout(persist),
                          !.lastDbUpdate = IF shouldPersistToDB THEN persist.clock ELSE @,
                          !.flagged = IF shouldPersistToDB THEN @ + 1 ELSE @]
    /\ UNCHANGED <<appVars, wireVars, resolver, sync, unitVars>>

\* the batch timer fires: processBatchUpdate up to its await, then timeoutId = null
BatchTimerFires ==
    /\ persist.timeoutId # NoTimeout /\ persist.timeoutId <= persist.clock
    /\ persist' = [persist EXCEPT
                      !.timeoutId = NoTimeout,
                      !.queue = 0,
                      !.transactions =
                          IF persist.queue = 0 THEN @
                          ELSE Append(@, [kind |-> "bulkPut", item |-> persist.queue])]
    /\ UNCHANGED <<appVars, wireVars, resolver, sync, unitVars>>

\* db.threadItems.bulkPut(itemsToUpdate) resolves
BulkPutResolves ==
    /\ persist.transactions # <<>> /\ Head(persist.transactions).kind = "bulkPut"
    /\ persist' = [persist EXCEPT !.transactions = Tail(@),
                                  !.db = Head(persist.transactions).item,
                                  !.writes = Append(@, persist.clock)]
    /\ UNCHANGED <<appVars, wireVars, resolver, sync, unitVars>>

\* bulkPut rejects: the catch puts the items of the batch one by one
BulkPutRejects ==
    /\ persist.transactions # <<>> /\ Head(persist.transactions).kind = "bulkPut"
    /\ persist' = [persist EXCEPT
                      !.transactions =
                          Append(Tail(@), [kind |-> "put",
                                           item |-> Head(persist.transactions).item])]
    /\ UNCHANGED <<appVars, wireVars, resolver, sync, unitVars>>

\* db.threadItems.put(item) of the catch resolves
PutResolves ==
    /\ persist.transactions # <<>> /\ Head(persist.transactions).kind = "put"
    /\ persist' = [persist EXCEPT !.transactions = Tail(@),
                                  !.db = Head(persist.transactions).item,
                                  !.writes = Append(@, persist.clock)]
    /\ UNCHANGED <<appVars, wireVars, resolver, sync, unitVars>>

\* db.threadItems.put(item) of the catch rejects: the inner catch logs it
PutRejects ==
    /\ persist.transactions # <<>> /\ Head(persist.transactions).kind = "put"
    /\ persist' = [persist EXCEPT !.transactions = Tail(@)]
    /\ UNCHANGED <<appVars, wireVars, resolver, sync, unitVars>>

\* time passes, a batch interval at a time; a timer that is due fires first
Tick ==
    /\ persist.clock < MaxTicks * BATCH_PROCESS_INTERVAL
    /\ persist.timeoutId = NoTimeout \/ persist.timeoutId > persist.clock
    /\ persist' = [persist EXCEPT !.clock = @ + BATCH_PROCESS_INTERVAL]
    /\ UNCHANGED <<appVars, wireVars, resolver, sync, unitVars>>

\* ------------------------------------------------- remote sync of a thread
\* milliseconds
REMOTE_SYNC_DELAY == 800

MaxSyncCalls == 4
MaxSyncTicks == 4
MaxReducerRuns == 2
MaxReducerEvents == 2
MaxChunks == 2
MaxReads == 6
MaxRetries == 6

NoTimer == 0
NoError == "null"

\* the store's sync fields, remoteSyncTimers[threadId], the timeouts that are
\* pending, and the remote operations in flight (id -> operation)
NewSync ==
    [clock |-> 0, syncMode |-> "local", isSyncingRemote |-> FALSE,
     lastRemoteSyncError |-> NoError, remoteSyncTimers |-> NoTimer, timers |-> {},
     operations |-> << >>, nextId |-> 1, calls |-> 0,
     \* bookkeeping for the properties: an authorization failure has been seen
     \* since sync was last enabled, and a remote write was started after it
     downgraded |-> FALSE, startedSince |-> FALSE, writes |-> 0]

\* cancelRemoteSync(threadId)
cancelRemoteSync(y) ==
    IF y.remoteSyncTimers # NoTimer
    THEN [y EXCEPT !.timers = {t \in @ : t.id # y.remoteSyncTimers},
                   !.remoteSyncTimers = NoTimer]
    ELSE y

\* syncThreadWithRemote up to its first await; timer is the timeout whose
\* callback made the call, NoTimer for a direct call
syncThreadWithRemote(y, timer) ==
    IF y.syncMode # "appwrite"
    THEN \* the promise is resolved: the callback's finally runs
         IF timer # NoTimer THEN [y EXCEPT !.remoteSyncTimers = NoTimer] ELSE y
    ELSE [y EXCEPT !.isSyncingRemote = TRUE,
                   !.operations = PutKey(@, y.nextId, [kind |-> "push", pc |-> "reading",
                                                       timer |-> timer]),
                   !.nextId = @ + 1]

\* a remote write is started
StartWrite(y) ==
    [y EXCEPT !.writes = @ + 1, !.startedSince = @ \/ y.downgraded]

\* enableAppwriteSync up to `await fetchRemoteThreads()`
EnableAppwriteSync ==
    /\ sync.calls < MaxSyncCalls
    /\ sync.syncMode # "appwrite"
    /\ sync' = [sync EXCEPT !.calls = @ + 1,
                            !.syncMode = "appwrite",
                            !.isSyncingRemote = TRUE,
                            !.lastRemoteSyncError = NoError,
                            !.operations = PutKey(@, sync.nextId, [kind |-> "enable",
                                                                   pc |-> "writing",
                                                                   timer |-> NoTimer]),
                            !.nextId = @ + 1,
                            !.downgraded = FALSE, !.startedSince = FALSE]
    /\ UNCHANGED <<appVars, wireVars, resolver, persist, unitVars>>

\* scheduleRemoteSync(threadId, {immediate})
scheduleRemoteSync(immediate) ==
    /\ sync.calls < MaxSyncCalls
    /\ sync.syncMode = "appwrite"
    /\ LET cancelled == [cancelRemoteSync(sync) EXCEPT !.calls = @ + 1]
       IN  sync' = IF immediate THEN syncThreadWithRemote(cancelled, NoTimer)
                   ELSE [cancelled EXCEPT
                            !.timers = @ \cup {[id |-> sync.nextId,
                                                due |-> sync.clock + REMOTE_SYNC_DELAY]},
                            !.remoteSyncTimers = sync.nextId,
                            !.nextId = @ + 1]
    /\ UNCHANGED <<appVars, wireVars, resolver, persist, unitVars>>

\* a timeout of scheduleRemoteSync fires: its callback calls syncThreadWithRemote
SyncTimerFires ==
    /\ \E t \in sync.timers :
          /\ t.due <= sync.clock
          /\ sync' = syncThreadWithRemote([sync EXCEPT !.timers = @ \ {t}], t.id)
    /\ UNCHANGED <<appVars, wireVars, resolver, persist, unitVars>>

\* syncThreadWithRemote: the reads of db resolve and updateRemoteThread is called
PushReads ==
    /\ \E id \in DOMAIN sync.operations :
          /\ sync.operations[id].pc = "reading"
          /\ sync' = StartWrite([sync EXCEPT !.operations[id].pc = "writing"])
    /\ UNCHANGED <<appVars, wireVars, resolver, persist, unitVars>>

\* deleteThread / deleteThreadItem: `await deleteRemoteThread(threadId)` is reached
DeleteRemoteThread ==
    /\ sync.calls < MaxSyncCalls
    /\ sync.syncMode = "appwrite"
    /\ sync' = StartWrite([sync EXCEPT
                              !.calls = @ + 1,
                              !.operations = PutKey(@, sync.nextId, [kind |-> "delete",
                                                                     pc |-> "writing",
                                                                     timer |-> NoTimer]),
                              !.nextId = @ + 1])
    /\ UNCHANGED <<appVars, wireVars, resolver, persist, unitVars>>

\* the finally of a push, and of the timer callback that made it
PushFinally(y, id) ==
    [y EXCEPT !.isSyncingRemote = FALSE,
              !.remoteSyncTimers = IF y.operations[id].timer # NoTimer THEN NoTimer ELSE @,
              !.operations = RemoveKey(@, id)]

\* a remote operation resolves
OperationResolves ==
    /\ \E id \in DOMAIN sync.operations :
          /\ sync.operations[id].pc = "writing"
          /\ sync' =
                IF sync.operations[id].kind = "push"
                THEN PushFinally([sync EXCEPT !.lastRemoteSyncError = NoError], id)
                ELSE IF sync.operations[id].kind = "enable"
                THEN [sync EXCEPT !.isSyncingRemote = FALSE,
                                  !.lastRemoteSyncError = NoError,
                                  !.operations = RemoveKey(@, id)]
                ELSE [sync EXCEPT !.operations = RemoveKey(@, id)]
    /\ UNCHANGED <<appVars, wireVars, resolver, persist, unitVars>>

\* the catch of a remote operation: what it does to the store
Rejected(y, kind, unauthorized) ==
    IF kind = "push"
    THEN IF unauthorized
         THEN [y EXCEPT !.syncMode = "local",
                        !.lastRemoteSyncError = "Authentication with Appwrite expired."]
         ELSE [y EXCEPT !.lastRemoteSyncError = "error.message"]
    ELSE IF kind = "enable"
    THEN [y EXCEPT !.syncMode = "local", !.isSyncingRemote = FALSE,
                   !.lastRemoteSyncError =
                       IF unauthorized THEN "Sign in again to sync chats to the cloud."
                       ELSE "error.message"]
    ELSE IF unauthorized
         THEN [y EXCEPT !.syncMode = "local",
                        !.lastRemoteSyncError =
                            "Sign in again to keep syncing chats to the cloud."]
         ELSE y

\* a remote operation rejects, for want of authorization or for another reason
OperationRejects(unauthorized) ==
    /\ \E id \in DOMAIN sync.operations :
          /\ sync.operations[id].pc = "writing"
          /\ LET kind == sync.operations[id].kind
                 after == [Rejected(sync, kind, unauthorized) EXCEPT
                              !.downgraded = @ \/ unauthorized]
             IN  sync' = IF kind = "push" THEN PushFinally(after, id)
                         ELSE [after EXCEPT !.operations = RemoveKey(@, id)]
    /\ UNCHANGED <<appVars, wireVars, resolver, persist, unitVars>>

\* time passes, half a sync delay at a time; a timeout that is due fires first
SyncTick ==
    /\ sync.clock < MaxSyncTicks * (REMOTE_SYNC_DELAY \div 2)
    /\ \A t \in sync.timers : t.due > sync.clock
    /\ sync' = [sync EXCEPT !.clock = @ + (REMOTE_SYNC_DELAY \div 2)]
    /\ UNCHANGED <<appVars, wireVars, resolver, persist, unitVars>>

\* ------------------------------------------------- notifications from other tabs
\* the `thread-item-delete` case of the SharedWorker and storage handlers, after
\* another tab's deleteThreadItem took the item out of db.threadItems
OnThreadItemDelete(threadId, id) ==
    /\ id \in DOMAIN dbItems
    /\ dbItems[id].threadId = threadId
    /\ dbItems' = RemoveKey(dbItems, id)
    /\ threadItems' = IF threadId = currentThreadId
                      THEN SelectSeq(threadItems, LAMBDA item : item.id # id)
                      ELSE threadItems
    /\ UNCHANGED <<threads, dbThreads, branchSelections, currentThreadId, batchQueue,
                   batchTimer, inflight>>
    /\ calls < MaxCalls /\ calls' = calls + 1
    /\ UNCHANGED <<now, nextItemId, nextThreadId, submittedThread, removed, runVars>>

\* the `thread-delete` case of the two handlers, after another tab's deleteThread
\* took the thread and its items out of db
OnThreadDelete(threadId) ==
    /\ threadId \in dbThreads
    /\ dbThreads' = dbThreads \ {threadId}
    /\ dbItems' = [id \in {i \in DOMAIN dbItems : dbItems[i].threadId # threadId} |->
                      dbItems[id]]
    /\ LET remaining == SelectSeq(threads, LAMBDA t : t # threadId)
       IN  /\ threads' = remaining
           /\ currentThreadId' = IF currentThreadId # threadId THEN currentThreadId
                                 ELSE IF Len(remaining) > 0 THEN remaining[1]
                                 ELSE NoId
    /\ UNCHANGED <<threadItems, branchSelections, batchQueue, batchTimer, inflight>>
    /\ calls < MaxCalls /\ calls' = calls + 1
    /\ UNCHANGED <<now, nextItemId, nextThreadId, submittedThread, removed, runVars>>

\* ------------------------------------------------- one item under the reducer
\* item 1 of thread 1: the accumulator entry of agent-provider and the item of the
\* store, over the runs that stream into it
NewReducer ==
    [pc |-> "idle", runs |-> 0, events |-> 0, entry |-> << >>, item |-> << >>,
     \* bookkeeping for the properties: the event applied last, done frames of this run
     last |-> "none", payload |-> << >>, doneFrames |-> 0,
     \* the workflow of the run: its updateStep calls, how many were made, its steps state
     calls |-> <<>>, made |-> 0, steps |-> << >>]

MetricsPayloads ==
    {[totalTokens |-> 1, durationMs |-> 1], [totalTokens |-> 2], [durationMs |-> 2], << >>}

\* proSearchTask.execute: its updateStep calls in program order; stepOffset is 1
\* when the notification step was added
UpdateStepCalls(autoWebSearchEnabled) ==
    LET stepOffset == IF autoWebSearchEnabled THEN 1 ELSE 0
        notification == IF autoWebSearchEnabled
                        THEN <<[stepId |-> 0, stepStatus |-> "COMPLETED",
                                subSteps |-> [autoEnabled |-> "COMPLETED"]]>>
                        ELSE <<>>
    IN  notification \o
        <<[stepId |-> stepOffset, stepStatus |-> "PENDING",
           subSteps |-> [search |-> "COMPLETED"]],
          [stepId |-> stepOffset, stepStatus |-> "PENDING",
           subSteps |-> [read |-> "PENDING"]],
          [stepId |-> stepOffset, stepStatus |-> "COMPLETED",
           subSteps |-> [read |-> "COMPLETED"]],
          [stepId |-> 1, stepStatus |-> "PENDING",
           subSteps |-> [reasoning |-> "COMPLETED"]],
          [stepId |-> 1, stepStatus |-> "COMPLETED",
           subSteps |-> [reasoning |-> "COMPLETED", wrapup |-> "COMPLETED"]]>>

\* sendEvents(events).updateStep: the steps state of the workflow after a call,
\* which is the payload of the `steps` event it emits
updateStep(prev, params) ==
    LET previous == IF params.stepId \in DOMAIN prev THEN prev[params.stepId].subSteps
                    ELSE << >>
    IN  PutKey(prev, params.stepId,
               [status |-> params.stepStatus, subSteps |-> Overlay(previous, params.subSteps)])

SourcesPayloads == {<<"s">>}

\* handleSubmit: the fresh item handed to createThreadItem, which replaces the stored one
ReducerSubmit(autoWebSearchEnabled) ==
    /\ reducer.pc \in {"idle", "stopped"}
    /\ reducer.runs < MaxReducerRuns
    /\ reducer' = [reducer EXCEPT !.pc = "streaming", !.runs = @ + 1, !.events = 0,
                                  !.calls = UpdateStepCalls(autoWebSearchEnabled),
                                  !.made = 0, !.steps = << >>,
                                  !.item = [id |-> 1, threadId |-> 1, parentId |-> NoId,
                                            branchRootId |-> 1, status |-> "QUEUED"],
                                  !.last = "submit", !.payload = << >>, !.doneFrames = 0]
    /\ UNCHANGED <<appVars, wireVars, resolver, persist, sync, task, loop, config>>

\* an event frame: handleThreadItemUpdate, then updateThreadItem's
\* {...existingItem, ...threadItem}
Reduced(r, eventType, eventData) ==
    LET updatedItem == UpdatedAccumulator(r.entry, 1, 1, eventType, eventData, NoId)
    IN  [r EXCEPT !.entry = updatedItem,
                  !.item = Overlay(@, updatedItem),
                  !.last = eventType, !.payload = eventData]

ReducerEvent(eventType, eventData) ==
    /\ reducer.pc = "streaming"
    /\ reducer.events < MaxReducerEvents
    /\ reducer' = [Reduced(reducer, eventType, eventData) EXCEPT !.events = @ + 1]
    /\ UNCHANGED <<appVars, wireVars, resolver, persist, sync, task, loop, config>>

\* the task's next updateStep call and the `steps` event frame it emits
ReducerSteps ==
    /\ reducer.pc = "streaming"
    /\ reducer.made < Len(reducer.calls)
    /\ LET steps == updateStep(reducer.steps, reducer.calls[reducer.made + 1])
       IN  reducer' = [Reduced(reducer, "steps", steps) EXCEPT !.made = @ + 1,
                                                                !.steps = steps]
    /\ UNCHANGED <<appVars, wireVars, resolver, persist, sync, task, loop, config>>

\* a done frame: the status it asks for, and threadItemMap.delete
ReducerDone(status) ==
    /\ reducer.pc = "streaming"
    /\ reducer' = [reducer EXCEPT !.pc = IF status = "error" THEN "streaming" ELSE "closing",
                                  !.entry = << >>,
                                  !.item = Overlay(@, [status |-> DoneStatus(status)]),
                                  !.last = "done", !.payload = << >>,
                                  !.doneFrames = @ + 1]
    /\ reducer.doneFrames < 1 \/ status # "error"
    /\ UNCHANGED <<appVars, wireVars, resolver, persist, sync, task, loop, config>>

\* the response ends
ReducerStreamEnds ==
    /\ reducer.pc \in {"streaming", "closing"}
    /\ reducer' = [reducer EXCEPT !.pc = "stopped", !.last = "end", !.payload = << >>]
    /\ UNCHANGED <<appVars, wireVars, resolver, persist, sync, task, loop, config>>

\* stopGeneration: the abort listener marks the item; the entry stays
ReducerAbort ==
    /\ reducer.pc = "streaming"
    /\ reducer' = [reducer EXCEPT !.pc = "stopped",
                                  !.item = Overlay(@, [status |-> "ABORTED"]),
                                  !.last = "abort", !.payload = << >>]
    /\ UNCHANGED <<appVars, wireVars, resolver, persist, sync, task, loop, config>>

\* ------------------------------------------------- proSearchTask.execute
\* the task is suspended at one of its four awaits: generateObject ("query"),
\* getSERPResults ("search"), processWebPages ("pages") and generateText ("analysis")
Awaits == {"query", "search", "pages", "analysis"}

NewTask ==
    [pc |-> "idle", aborted |-> FALSE, emitted |-> <<>>, result |-> "none", chunks |-> 0,
     \* bookkeeping for the properties: where the signal fired, the network calls
     \* started since, and whether the error event reports the cancellation
     abortedAt |-> "none", startedSince |-> 0, cancellation |-> FALSE]

\* the call the task makes next: counted when the signal has fired already
Suspend(t, pc) ==
    [t EXCEPT !.pc = pc, !.startedSince = IF t.aborted THEN @ + 1 ELSE @]

\* the catch of execute: an `error` event with status ERROR, result 'error'
Caught(t, cancelled) ==
    [t EXCEPT !.pc = "returned", !.result = "error",
              !.emitted = Append(@, [event |-> "error", status |-> "ERROR"]),
              !.cancellation = cancelled]

\* execute up to its first await
TaskExecute(question, autoWebSearchEnabled) ==
    /\ task.pc = "idle"
    /\ task' = IF ~question THEN Caught(task, FALSE)
               ELSE Suspend([task EXCEPT !.emitted = IF autoWebSearchEnabled
                                                     THEN <<[event |-> "steps"]>> ELSE <<>>],
                            "query")
    /\ UNCHANGED <<appVars, wireVars, resolver, persist, sync, reducer, loop, config>>

\* the run's abort signal fires while the task is suspended
TaskAbort ==
    /\ task.pc \in Awaits
    /\ ~task.aborted
    /\ task' = [task EXCEPT !.aborted = TRUE, !.abortedAt = task.pc]
    /\ UNCHANGED <<appVars, wireVars, resolver, persist, sync, reducer, loop, config>>

\* the awaited call resolves with a usable value and execute runs to its next await
TaskResolves ==
    /\ task.pc \in Awaits
    /\ task' =
          CASE task.pc = "query" -> Suspend(task, "search")
            [] task.pc = "search" ->
                  Suspend([task EXCEPT !.emitted = @ \o <<[event |-> "steps"],
                                                          [event |-> "steps"]>>], "pages")
            [] task.pc = "pages" ->
                  Suspend([task EXCEPT !.emitted = @ \o <<[event |-> "steps"],
                                                          [event |-> "sources"]>>], "analysis")
            [] task.pc = "analysis" ->
                  [task EXCEPT !.pc = "returned", !.result = "success",
                               !.emitted = @ \o <<[event |-> "steps"],
                                                  [event |-> "answer", status |-> "COMPLETED"],
                                                  [event |-> "status", status |-> "COMPLETED"]>>]
    /\ UNCHANGED <<appVars, wireVars, resolver, persist, sync, reducer, loop, config>>

\* generateText hands over a chunk: the buffer flushes an answer event
TaskChunk ==
    /\ task.pc = "analysis"
    /\ task.chunks < MaxChunks
    /\ task' = [task EXCEPT !.chunks = @ + 1,
                            !.emitted = Append(@, [event |-> "answer", status |-> "PENDING"])]
    /\ UNCHANGED <<appVars, wireVars, resolver, persist, sync, reducer, loop, config>>

\* the awaited call rejects, or resolves with nothing usable: execute throws and
\* its catch runs. Only processWebPages is given the signal, so only it can
\* reject because the signal fired
TaskRejects(cancelled) ==
    /\ task.pc \in Awaits
    /\ cancelled => task.aborted /\ task.pc = "pages"
    /\ task' = Caught(task, cancelled)
    /\ UNCHANGED <<appVars, wireVars, resolver, persist, sync, reducer, loop, config>>

\* ------------------------------------------------- the read loop of runAgent
\* while (true) { try { await reader.read() ... } catch { await 1 s; continue } }
NewLoop ==
    [pc |-> "idle", stream |-> "none", isGenerating |-> FALSE, status |-> "QUEUED",
     \* bookkeeping for the properties: chunks read, reads that were caught
     reads |-> 0, retries |-> 0]

\* runAgent up to the loop: the response is ok and has a body
LoopStarts ==
    /\ loop.pc = "idle"
    /\ loop' = [loop EXCEPT !.pc = "reading", !.stream = "open", !.isGenerating = TRUE]
    /\ UNCHANGED <<appVars, wireVars, resolver, persist, sync, reducer, task, config>>

\* reader.read() resolves with a chunk; its frames are applied
LoopReads ==
    /\ loop.pc = "reading" /\ loop.stream = "open"
    /\ loop.reads < MaxReads
    /\ loop' = [loop EXCEPT !.reads = @ + 1, !.status = "PENDING"]
    /\ UNCHANGED <<appVars, wireVars, resolver, persist, sync, reducer, task, config>>

\* reader.read() resolves with done: break, then finally
LoopReadsDone ==
    /\ loop.pc = "reading" /\ loop.stream = "open"
    /\ loop' = [loop EXCEPT !.pc = "finally", !.stream = "closed"]
    /\ UNCHANGED <<appVars, wireVars, resolver, persist, sync, reducer, task, config>>

\* the body errors for good: the user aborts (the abort listener marks the item),
\* or the connection is lost
LoopStreamErrors(aborted) ==
    /\ loop.pc \in {"reading", "waiting"} /\ loop.stream = "open"
    /\ loop' = IF aborted
               THEN [loop EXCEPT !.stream = "errored", !.isGenerating = FALSE,
                                 !.status = "ABORTED"]
               ELSE [loop EXCEPT !.stream = "errored"]
    /\ UNCHANGED <<appVars, wireVars, resolver, persist, sync, reducer, task, config>>

\* reader.read() of an errored body rejects: catch (readError), wait one second
LoopReadRejects ==
    /\ loop.pc = "reading" /\ loop.stream = "errored"
    /\ loop' = [loop EXCEPT !.pc = "waiting",
                            !.retries = IF @ < MaxRetries THEN @ + 1 ELSE @]
    /\ UNCHANGED <<appVars, wireVars, resolver, persist, sync, reducer, task, config>>

\* the second is over: continue
LoopContinues ==
    /\ loop.pc = "waiting"
    /\ loop' = [loop EXCEPT !.pc = "reading"]
    /\ UNCHANGED <<appVars, wireVars, resolver, persist, sync, reducer, task, config>>

\* finally: setIsGenerating(false); runAgent returns
LoopFinally ==
    /\ loop.pc = "finally"
    /\ loop' = [loop EXCEPT !.pc = "returned", !.isGenerating = FALSE]
    /\ UNCHANGED <<appVars, wireVars, resolver, persist, sync, reducer, task, config>>

\* ------------------------------------------------- the persisted configuration
\* blob is JSON.parse(localStorage.getItem(CONFIG_KEY) || '{}'); model is
\* state.model.id
NewConfig ==
    [blob |-> << >>, model |-> "gemini-2.5-flash",
     \* bookkeeping for the properties: the setter called last
     last |-> "none"]

\* localStorage.setItem(CONFIG_KEY, JSON.stringify({ showSuggestions }))
setShowSuggestions(showSuggestions) ==
    /\ config' = [config EXCEPT !.blob = [showSuggestions |-> showSuggestions],
                                !.last = "setShowSuggestions"]
    /\ UNCHANGED <<appVars, wireVars, resolver, persist, sync, reducer, task, loop>>

\* JSON.stringify({ ...existingConfig, useWebSearch })
setUseWebSearch(useWebSearch) ==
    /\ config' = [config EXCEPT !.blob = Overlay(@, [useWebSearch |-> useWebSearch]),
                                !.last = "setUseWebSearch"]
    /\ UNCHANGED <<appVars, wireVars, resolver, persist, sync, reducer, task, loop>>

\* JSON.stringify({ ...existingConfig, customInstructions })
setCustomInstructions(customInstructions) ==
    /\ config' = [config EXCEPT
                     !.blob = Overlay(@, [customInstructions |-> customInstructions]),
                     !.last = "setCustomInstructions"]
    /\ UNCHANGED <<appVars, wireVars, resolver, persist, sync, reducer, task, loop>>

\* JSON.stringify({ chatMode })
setChatMode(chatMode) ==
    /\ config' = [config EXCEPT !.blob = [chatMode |-> chatMode], !.last = "setChatMode"]
    /\ UNCHANGED <<appVars, wireVars, resolver, persist, sync, reducer, task, loop>>

\* JSON.stringify({ model: model.id })
setModel(model) ==
    /\ config' = [config EXCEPT !.blob = [model |-> model], !.model = model,
                                !.last = "setModel"]
    /\ UNCHANGED <<appVars, wireVars, resolver, persist, sync, reducer, task, loop>>

\* switchThread: JSON.stringify({ model: get().model.id, currentThreadId: threadId })
switchThreadConfig(threadId) ==
    /\ config' = [config EXCEPT !.blob = [model |-> config.model,
                                          currentThreadId |-> threadId],
                                !.last = "switchThread"]
    /\ UNCHANGED <<appVars, wireVars, resolver, persist, sync, reducer, task, loop>>

InitStore ==
    /\ threads = <<>>
    /\ dbThreads = {}
    /\ threadItems = <<>>
    /\ dbItems = << >>
    /\ branchSelections = << >>
    /\ currentThreadId = NoId
    /\ batchQueue = << >>
    /\ batchTimer = FALSE
    /\ inflight = NoCall

Init ==
    /\ InitStore
    /\ now = 0
    /\ nextItemId = 1
    /\ nextThreadId = 1
    /\ submittedThread = << >>
    /\ calls = 0
    /\ removed = << >>
    /\ threadItemMap = << >>
    /\ isGenerating = FALSE
    /\ run = NoRun
    /\ deltaLog = << >>
    /\ earlier = NoRun
    /\ InitWire
    /\ resolver = NoResolution
    /\ persist = NewPersist
    /\ sync = NewSync
    /\ reducer = NewReducer
    /\ task = NewTask
    /\ loop = NewLoop
    /\ config = NewConfig

Next ==
    \/ CreateThreadCall
    \/ SubmitCall
    \/ createThreadItemSet
    \/ UpdateContextCall
    \/ processBatchUpdate
    \/ \E threadItemId \in 1..(nextItemId - 1) : deleteThreadItem(threadItemId)
    \/ deleteThreadItemSet
    \/ deleteThreadItemCounted
    \/ deleteThreadItemThread
    \/ callReturns
    \/ \E threadItemId \in 1..(nextItemId - 1) : removeFollowupThreadItems(threadItemId)
    \/ removeFollowupThreadItemsSet
    \/ \E threadId \in SeqToSet(threads) : deleteThread(threadId)
    \/ deleteThreadSet
    \/ \E threadId \in SeqToSet(threads) : switchThread(threadId)
    \/ loadThreadItemsSet
    \/ \E root \in 1..(nextItemId - 1), selected \in 1..(nextItemId - 1) :
          selectBranch(root, selected)

Spec == Init /\ [][Next]_vars

\* the store under its callers and the notifications of another tab
NextTabs ==
    \/ Next
    \/ \E threadId \in 1..(nextThreadId - 1), id \in 1..(nextItemId - 1) :
          OnThreadItemDelete(threadId, id)
    \/ \E threadId \in 1..(nextThreadId - 1) : OnThreadDelete(threadId)

SpecTabs == Init /\ [][NextTabs]_vars

\* the store driven by generation runs
NextRun ==
    \/ NewChat
    \/ HandleSubmit
    \/ createThreadItemSet
    \/ processBatchUpdate
    \/ FetchResponds
    \/ FetchHttpError
    \/ FetchAborted
    \/ \E eventData \in AnswerPayloads : ReceiveAnswer(eventData)
    \/ \E status \in StatusPayloads : ReceiveStatus(status)
    \/ \E status \in DoneStatuses : ReceiveDone(status)
    \/ StreamEnds
    \/ StopGeneration
    \/ WorkerEvent
    \/ \E status \in DoneStatuses : WorkerDone(status)
    \/ \E status \in DoneStatuses : EarlierReceiveDone(status)
    \/ EarlierStreamEnds
    \/ EarlierFetchAborted

SpecRun == Init /\ [][NextRun]_vars

\* one executeStream and the client reading its response
NextWire ==
    \/ \E data \in Requests, requestedMode \in {"auto", "DEEPSEEK_R1"}, query \in Prompts,
          hasImageAttachment \in BOOLEAN, apiKeys \in SUBSET Providers :
            ExecuteStream(data, requestedMode, query, hasImageAttachment, apiKeys)
    \/ WorkflowEvent
    \/ WorkflowCompletes
    \/ WorkflowFails
    \/ AbortRequest
    \/ SinkCloses
    \/ \E n \in 1..Len(wire) : Read(n)
    \/ \E status \in {429, 500}, isSignedIn \in BOOLEAN : ResponseNotOk(status, isSignedIn)

SpecWire == Init /\ [][NextWire]_vars

\* the mode resolver on its own
NextResolver ==
    \E query \in Queries, hasImage \in BOOLEAN : ResolveMode(query, hasImage)

SpecResolver == Init /\ [][NextResolver]_vars

\* a streamed item, the batch queue and the database, with time
NextPersist ==
    \/ StreamEvent
    \/ BatchTimerFires
    \/ BulkPutResolves
    \/ BulkPutRejects
    \/ PutResolves
    \/ PutRejects
    \/ Tick

SpecPersist == Init /\ [][NextPersist]_vars

\* remote sync of one thread, with time
NextSync ==
    \/ EnableAppwriteSync
    \/ \E immediate \in BOOLEAN : scheduleRemoteSync(immediate)
    \/ SyncTimerFires
    \/ PushReads
    \/ DeleteRemoteThread
    \/ OperationResolves
    \/ \E unauthorized \in BOOLEAN : OperationRejects(unauthorized)
    \/ SyncTick

SpecSync == Init /\ [][NextSync]_vars

\* one item under the reducer, over the runs that stream into it
NextReducer ==
    \/ \E autoWebSearchEnabled \in BOOLEAN : ReducerSubmit(autoWebSearchEnabled)
    \/ \E eventData \in {[text |-> <<"a">>], [finalText |-> <<"c">>]} :
          ReducerEvent("answer", eventData)
    \/ \E eventData \in StatusPayloads : ReducerEvent("status", eventData)
    \/ ReducerSteps
    \/ \E eventData \in SourcesPayloads : ReducerEvent("sources", eventData)
    \/ \E eventData \in MetricsPayloads : ReducerEvent("metrics", eventData)
    \/ \E status \in DoneStatuses : ReducerDone(status)
    \/ ReducerStreamEnds
    \/ ReducerAbort

SpecReducer == Init /\ [][NextReducer]_vars

\* proSearchTask.execute and the run's abort signal
NextTask ==
    \/ \E question \in BOOLEAN, autoWebSearchEnabled \in BOOLEAN :
          TaskExecute(question, autoWebSearchEnabled)
    \/ TaskAbort
    \/ TaskResolves
    \/ TaskChunk
    \/ \E cancelled \in BOOLEAN : TaskRejects(cancelled)

SpecTask == Init /\ [][NextTask]_vars

\* the read loop of runAgent; every step that can be taken is taken in the end
NextLoop ==
    \/ LoopStarts
    \/ LoopReads
    \/ LoopReadsDone
    \/ \E aborted \in BOOLEAN : LoopStreamErrors(aborted)
    \/ LoopReadRejects
    \/ LoopContinues
    \/ LoopFinally

SpecLoop == Init /\ [][NextLoop]_vars /\ WF_vars(NextLoop)

\* the setters that persist a setting
NextConfig ==
    \/ \E showSuggestions \in BOOLEAN : setShowSuggestions(showSuggestions)
    \/ \E useWebSearch \in BOOLEAN : setUseWebSearch(useWebSearch)
    \/ \E customInstructions \in {"brief", "formal"} : setCustomInstructions(customInstructions)
    \/ \E chatMode \in {"auto", "DEEPSEEK_R1"} : setChatMode(chatMode)
    \/ \E model \in {"gemini-2.5-flash", "gemini-2.5-pro"} : setModel(model)
    \/ \E threadId \in 1..MaxThreadId : switchThreadConfig(threadId)

SpecConfig == Init /\ [][NextConfig]_vars


\* ================================================================ claims
DeleteJustFiltered ==
    inflight.op = "deleteThreadItem" /\ inflight.stage = "counted"

\* C1: every value of branchSelections is the id of an item in threadItems
\* (branchSelections is a map, so a branchRootId has at most one entry)
C1_SelectionsLive ==
    \A rootId \in DOMAIN branchSelections :
        /\ branchSelections[rootId] \in IdsOf(threadItems)
        /\ rootId \in DOMAIN buildBranchGroups(threadItems)

C1_Witness ==
    /\ DeleteJustFiltered /\ inflight.wasSelected
    /\ DOMAIN branchSelections # {}

\* C2: every branch group with a member has a selection that is a member of the
\* group; a group that had no selection gets its most recently created member
GroupsSelected(items, sel) ==
    \A rootId \in DOMAIN buildBranchGroups(items) :
        /\ rootId \in DOMAIN sel
        /\ sel[rootId] \in IdsOf(buildBranchGroups(items)[rootId])

DefaultsToNewest(items, selBefore, selAfter) ==
    \A rootId \in DOMAIN buildBranchGroups(items) \ DOMAIN selBefore :
        /\ rootId \in DOMAIN selAfter
        /\ \E it \in SeqToSet(items) :
              /\ it.id = selAfter[rootId]
              /\ resolveBranchRootId(it) = rootId
              /\ \A other \in SeqToSet(items) :
                    resolveBranchRootId(other) = rootId => other.createdAt <= it.createdAt

C2_GroupsHaveSelection ==
    [][/\ GroupsSelected(threadItems', branchSelections')
       /\ DefaultsToNewest(threadItems', branchSelections, branchSelections')]_vars

\* a load that found a group of two with no selection yet
C2_Witness ==
    /\ inflight.op = "loadThreadItems"
    /\ \E i \in 1..Len(inflight.items) : \E j \in 1..Len(inflight.items) :
          /\ i # j
          /\ resolveBranchRootId(inflight.items[i]) = resolveBranchRootId(inflight.items[j])
          /\ resolveBranchRootId(inflight.items[i]) \notin DOMAIN branchSelections

\* C3: deleteThreadItem of the selected item: the group's selection becomes the
\* last remaining item of the group, or its key goes when the group is empty;
\* the selections of the other groups stay
C3_DeleteReselects ==
    [][(inflight.op = "deleteThreadItem" /\ inflight.stage = "set"
            /\ inflight'.stage = "counted")
        => \A rootId \in DOMAIN branchSelections :
              IF branchSelections[rootId] = inflight.id
              THEN LET groups == buildBranchGroups(threadItems')
                   IN  IF rootId \in DOMAIN groups
                       THEN /\ rootId \in DOMAIN branchSelections'
                            /\ branchSelections'[rootId]
                                  = groups[rootId][Len(groups[rootId])].id
                            /\ branchSelections'[rootId] # inflight.id
                       ELSE rootId \notin DOMAIN branchSelections'
              ELSE /\ rootId \in DOMAIN branchSelections'
                   /\ branchSelections'[rootId] = branchSelections[rootId]]_vars

C3_Witness ==
    /\ DeleteJustFiltered /\ inflight.wasSelected
    /\ inflight.rootId \in DOMAIN branchSelections
    /\ Len(buildBranchGroups(threadItems)[inflight.rootId]) >= 2

\* C4: deleting the only item of the current thread removes the thread from the
\* list and from the database, moves the current thread away and leaves no
\* selection that refers to the item
C4_LastItemRemovesThread ==
    (/\ inflight.op = "deleteThreadItem" /\ inflight.stage = "returned"
     /\ inflight.onlyItemOfCurrent)
    => /\ inflight.threadId \notin SeqToSet(threads)
       /\ inflight.threadId \notin dbThreads
       /\ currentThreadId # inflight.threadId
       /\ \A rootId \in DOMAIN branchSelections :
             rootId # inflight.id /\ branchSelections[rootId] # inflight.id

TerminalStatuses == {"COMPLETED", "ERROR", "ABORTED"}

ItemStatus(items, id) == IF id \in IdsOf(items) THEN FindItem(items, id).status ELSE NoStatus

ItemText(items, id) == IF id \in IdsOf(items) THEN FindItem(items, id).text ELSE <<>>

\* a frame, worker message or abort callback of the current run is handled
RunStep == run' # run /\ run'.number = run.number

AnswerStep ==
    /\ run'.frames = run.frames + 1
    /\ run'.lastFrame.type = "answer"

DoneStep ==
    /\ run'.frames = run.frames + 1
    /\ run'.lastFrame.type = "done"

ExpectedStatus == [complete |-> "COMPLETED", error |-> "ERROR", aborted |-> "ABORTED"]

\* C5: once the run has given its item a terminal status, no later frame, done
\* frame, worker message or abort callback of the run changes the item's status
C5_TerminalIsFinal ==
    [][(/\ RunStep
        /\ run.terminal \in TerminalStatuses
        /\ ItemStatus(threadItems, run.threadItemId) = run.terminal)
       => ItemStatus(threadItems', run.threadItemId) = run.terminal]_vars

RECURSIVE Flatten(_)
Flatten(ss) == IF ss = << >> THEN << >> ELSE Head(ss) \o Flatten(Tail(ss))

C7_SnapshotReplaces ==
    [][AnswerStep
       => LET data == run'.lastFrame.data
          IN  IF "finalText" \in DOMAIN data
              THEN threadItemMap'[run.threadItemId].text = data.finalText
              ELSE "fullText" \in DOMAIN data
                      => threadItemMap'[run.threadItemId].text = data.fullText]_vars

\* C7 as the code has it: a finalText that is not blank replaces the accumulated
\* text; failing that a fullText that is not blank does; in the accumulator and
\* in the store
C7_NonBlankSnapshotReplaces ==
    [][AnswerStep
       => LET data == run'.lastFrame.data
              hasFinalText == "finalText" \in DOMAIN data /\ NonBlank(data.finalText)
              hasFullText == "fullText" \in DOMAIN data /\ NonBlank(data.fullText)
          IN  /\ hasFinalText
                    => /\ threadItemMap'[run.threadItemId].text = data.finalText
                       /\ ItemText(threadItems', run.threadItemId) = data.finalText
              /\ (~hasFinalText /\ hasFullText)
                    => /\ threadItemMap'[run.threadItemId].text = data.fullText
                       /\ ItemText(threadItems', run.threadItemId) = data.fullText]_vars

C7_Witness ==
    /\ run.lastFrame.type = "answer"
    /\ "finalText" \in DOMAIN run.lastFrame.data
    /\ NonBlank(run.lastFrame.data.finalText)
    /\ run.lastFrame.prevText # << >>
    /\ run.lastFrame.prevText # run.lastFrame.data.finalText
    /\ AccumulatedText(run.threadItemId) = run.lastFrame.data.finalText

C9_DoneFrameIdempotent ==
    [][(/\ DoneStep
        /\ run.path = "stream"
        /\ run.lastFrame.type = "done"
        /\ run'.lastFrame.data = run.lastFrame.data
        /\ ItemStatus(threadItems, run.threadItemId) = ExpectedStatus[run.lastFrame.data])
       => /\ ItemStatus(threadItems', run.threadItemId)
                = ItemStatus(threadItems, run.threadItemId)
          /\ run.threadItemId \in DOMAIN batchQueue'
                => run.threadItemId \in DOMAIN batchQueue]_vars

\* C10: a run the user has aborted has had exactly one update that sets ABORTED
C10_AbortedExactlyOnce ==
    run.aborted => run.abortedUpdates = 1

\* C11: once a run has been aborted the accumulator holds no entry for its item
C11_AbortReleasesAccumulator ==
    run.aborted => run.threadItemId \notin DOMAIN threadItemMap

\* C12: a run that is still reading its stream when a new run starts has had its
\* abort controller aborted
C12_OneActiveRun ==
    earlier.pc = "streaming" => earlier.aborted

\* what a run of the read loop leaves of the thread item
FinalState(c) ==
    [text |-> c.text, status |-> c.status, threadItemMap |-> c.threadItemMap,
     applied |-> c.applied]

\* everything enqueued has been read and no unfinished frame is buffered
Drained ==
    wire = <<>> /\ consumer.buffer = <<>> /\ consumer.pending = <<>>

\* the payload of the frame a sendMessage call put on the wire
WrittenPayload(call) ==
    IF call.wrote = "frame" THEN call.payload
    ELSE DonePayload(call.payload, "error", "Failed to serialize payload")

WroteSomething(call) == call.wrote # "none"

WrittenPayloads == 
    LET writes == SelectSeq(sent, WroteSomething)
    IN  [i \in 1..Len(writes) |-> WrittenPayload(writes[i])]

IsProgress(e) == e.event # "done"

IsProgressPayload(payload) == payload.type # "done"

NoLineSeparator(payload) == \A i \in 1..Len(payload.body) : payload.body[i] # LS

RECURSIVE FramesOf(_)
FramesOf(payloads) ==
    IF payloads = <<>> THEN <<>>
    ELSE encode(Frame(Head(payloads))) \o FramesOf(Tail(payloads))

\* C13: however the bytes read so far of a response were cut into reads, the
\* thread item is in the state that reading the same bytes in one read gives
C13_SplitReadsAgree ==
    consumer.response.ok =>
        FinalState(consumer) = FinalState(Consume(NewConsumer, consumer.taken))

C13_Witness ==
    /\ consumer.partial /\ Drained
    /\ Len(consumer.applied) >= 2

\* C14: once the response is read to the end, the progress events handed to the
\* reducer are the progress events sendMessage wrote, name, ids and payload
C14_RoundTrip ==
    Drained =>
        SelectSeq(consumer.applied, IsProgress)
            = LET progress == SelectSeq(WrittenPayloads, IsProgressPayload)
              IN  [i \in 1..Len(progress) |-> Decoded(progress[i].type, progress[i])]

\* C15: a response with frames whose data line does not parse leaves the thread
\* item as the same response without those frames does
C15_MalformedFrameSkipped ==
    (Drained /\ consumer.response.ok) =>
        FinalState(consumer)
            = FinalState(Consume(NewConsumer,
                                 FramesOf(SelectSeq(WrittenPayloads, NoLineSeparator))))

C15_Witness ==
    /\ Drained /\ consumer.discarded >= 1
    /\ \E i, j \in 1..Len(WrittenPayloads) :
          /\ i < j
          /\ ~NoLineSeparator(WrittenPayloads[i])
          /\ NoLineSeparator(WrittenPayloads[j])

\* C16: after a sendMessage call met the sink's invalid state, no later call
\* enqueues anything or lets an error escape
C16_ClosedSinkDropsWrites ==
    \A i, j \in 1..Len(sent) :
        (i < j /\ sent[i].signalled) => (sent[j].enqueued = <<>> /\ ~sent[j].raised)

C16_Witness ==
    \E i, j \in 1..Len(sent) : i < j /\ sent[i].signalled

\* the frames a sendMessage call enqueued, as the read loop decodes them
DecodedFrames(call) == Consume(NewConsumer, call.enqueued).applied

FallbackOf(payload) ==
    <<[event |-> "done", threadId |-> payload.threadId, threadItemId |-> payload.threadItemId,
       parentThreadItemId |-> payload.parentThreadItemId,
       body |-> <<"error", "Failed to serialize payload">>]>>

\* C17 as stated: a payload that cannot be serialized raises nothing and is
\* replaced by one done/error frame with the payload's ids
C17_UnserializableBecomesDone ==
    \A i \in 1..Len(sent) :
        ~sent[i].payload.serializable =>
            ~sent[i].raised /\ DecodedFrames(sent[i]) = FallbackOf(sent[i].payload)

\* C17: a payload that cannot be serialized raises nothing; if the sink still
\* accepts writes it is replaced by one done/error frame with the payload's ids
C17_UnserializableBecomesDoneIfOpen ==
    \A i \in 1..Len(sent) :
        ~sent[i].payload.serializable =>
            /\ ~sent[i].raised
            /\ sent[i].open => DecodedFrames(sent[i]) = FallbackOf(sent[i].payload)
            /\ ~sent[i].open => sent[i].enqueued = <<>>

C17_Witness ==
    \E i \in 1..Len(sent) : ~sent[i].payload.serializable /\ sent[i].open

LastSent == sent[Len(sent)]

ClosesRequest(call) ==
    /\ Len(DecodedFrames(call)) = 1
    /\ LET frame == DecodedFrames(call)[1]
       IN  /\ frame.event = "done"
           /\ frame.threadId = server.data.threadId
           /\ frame.threadItemId = server.data.threadItemId

\* C18 as stated: a finished executeStream has written a done frame with the
\* request's threadId and threadItemId as its last frame
C18_AlwaysFinalDone ==
    server.pc = "finished" => ClosesRequest(LastSent)

\* C18: a finished executeStream whose sink still accepted writes has written a
\* done frame with the request's threadId and threadItemId as its last frame
C18_FinalDoneIfOpen ==
    (server.pc = "finished" /\ LastSent.open) => ClosesRequest(LastSent)

C18_Witness ==
    /\ server.pc = "finished" /\ LastSent.open
    /\ server.outcome = "failed" /\ server.aborted

\* C19: the done frame of a failed workflow says aborted when the abort signal
\* is aborted and error, with the message, when it is not
C19_AbortIsNotError ==
    (server.pc = "finished" /\ server.outcome = "failed") =>
        /\ LastSent.payload.type = "done"
        /\ server.aborted => LastSent.payload.body = <<"aborted">>
        /\ ~server.aborted => /\ Len(LastSent.payload.body) = 2
                              /\ LastSent.payload.body[1] = "error"

C19_Witness ==
    /\ server.pc = "finished" /\ server.outcome = "failed"
    /\ server.aborted /\ server.events >= 1

CredentialOf(provider) ==
    IF provider = "google" THEN "GEMINI_API_KEY" ELSE "OPENROUTER_API_KEY"

\* C20: in Auto mode, with no provider key at all, or with an image and no
\* Gemini key, ensureProviderAvailability throws, names a credential that is
\* missing, and returns no mode
C20_MissingCredentialRaises ==
    server.call.made =>
        LET call == server.call
        IN  (call.apiKeys = {} \/ (call.hasImageAttachment /\ "google" \notin call.apiKeys))
                => /\ call.result.threw
                   /\ call.result.mode = "none"
                   /\ \E provider \in Providers \ call.apiKeys :
                         call.result.credential = CredentialOf(provider)

C20_Witness ==
    /\ server.call.made /\ server.call.result.threw
    /\ server.call.hasImageAttachment
    /\ server.call.apiKeys = {"openrouter"}

CodeKeywords == {"code", "bug", "python", "javascript"}
ImageKeywords == {"image", "chart"}

DistinctCodeKeywords(query) == Cardinality(query.words \cap CodeKeywords)

\* C22 as stated: a query with at least two distinct code keywords and no image
\* attached is given the coding mode
C22_TwoCodeWordsSelectCoding ==
    (resolver.made /\ ~resolver.hasImage /\ DistinctCodeKeywords(resolver.query) >= 2)
        => resolver.mode = "DEEPSEEK_CHAT_V3_1"

\* C22: a query with at least two distinct code keywords, no image attached and
\* no word of the image category is given the coding mode
C22_TwoCodeWordsNoImageWordSelectCoding ==
    (/\ resolver.made /\ ~resolver.hasImage
     /\ DistinctCodeKeywords(resolver.query) >= 2
     /\ resolver.query.words \cap ImageKeywords = {})
        => resolver.mode = "DEEPSEEK_CHAT_V3_1"

C22_Witness ==
    /\ resolver.made /\ ~resolver.hasImage
    /\ resolver.query.words = {"bug", "python", "prove"}
    /\ resolver.mode = "DEEPSEEK_CHAT_V3_1"

\* C23: a query that is given the coding mode through the code category gets
\* the coding reason from getModelSelectionReason, not the general one
C23_CodingReasonForCodeCategory ==
    (/\ resolver.made /\ ~resolver.hasImage
     /\ DistinctCodeKeywords(resolver.query) >= 2
     /\ resolver.mode = "DEEPSEEK_CHAT_V3_1")
        => resolver.reason = CodingReason

CategoryOrder == <<"image", "code", "math", "news", "research", "creative", "translation">>

Matches(category, query, hasImage) ==
    CASE category = "image" -> hasImage \/ imageWords(query)
      [] category = "code" -> isCode(query)
      [] category = "math" -> isMath(query)
      [] category = "news" -> isNews(query)
      [] category = "research" -> isResearch(query)
      [] category = "creative" -> isCreative(query)
      [] category = "translation" -> isTranslation(query)

ModeOfCategory(category) ==
    CASE category = "image" -> "GEMINI_2_5_FLASH"
      [] category = "code" -> "DEEPSEEK_CHAT_V3_1"
      [] category = "math" -> "DEEPSEEK_R1"
      [] category = "news" -> "LONGCAT_FLASH_CHAT"
      [] category = "research" -> "GEMINI_2_5_PRO"
      [] category = "creative" -> "GLM_4_5_AIR"
      [] category = "translation" -> "GEMINI_2_5_FLASH"

Matching(query, hasImage) ==
    {i \in DOMAIN CategoryOrder : Matches(CategoryOrder[i], query, hasImage)}

\* C24: the mode is that of the first category, in the order image, code, math,
\* news, research, creative, translation, that the query matches, whichever
\* later ones match too; a query that matches none gets the fast mode when it
\* has fewer than 20 tokens and the balanced mode otherwise
C24_FirstMatchingCategoryWins ==
    resolver.made =>
        LET matching == Matching(resolver.query, resolver.hasImage)
        IN  IF matching # {}
            THEN \E first \in matching :
                    /\ \A i \in matching : first <= i
                    /\ resolver.mode = ModeOfCategory(CategoryOrder[first])
            ELSE resolver.mode = IF resolver.query.length < 20 THEN "GEMINI_2_5_FLASH"
                                 ELSE "DEEPSEEK_CHAT_V3_1"

C24_Witness ==
    /\ resolver.made
    /\ Matching(resolver.query, resolver.hasImage) = {3, 4, 5}
    /\ resolver.mode = "DEEPSEEK_R1"

\* C25: while a run streams, the item is written to durable storage at most
\* once per DB_UPDATE_INTERVAL, and every recognised event is in the in-memory
\* store as soon as it is parsed
C25_ThrottledPersistence ==
    /\ persist.memory = persist.version
    /\ \A i \in 1..(Len(persist.writes) - 1) :
          persist.writes[i + 1] - persist.writes[i] >= DB_UPDATE_INTERVAL

\* C26: per item, a write of an older version never replaces a newer one in
\* durable storage, whatever the overlap of flushes and of the per-item fallback
C26_LastWriteWins == [][persist'.db >= persist.db]_vars

\* C27: at most one sync timer is pending for a thread at any time (so that a
\* burst of non-immediate requests ends in one upstream write)
C27_OnePendingTimer == Cardinality(sync.timers) <= 1

\* C28: from an authorization failure of a remote operation until sync is
\* enabled again, the store is in syncMode local with an error to show, and no
\* remote write is started
C28_DowngradeOnAuthFailure ==
    sync.downgraded =>
        /\ sync.syncMode = "local"
        /\ sync.lastRemoteSyncError # NoError
        /\ ~sync.startedSince

\* C29: when the request is rejected with HTTP 429, the error left on the item
\* is the `use your own API key` text for a signed-in user and the `please
\* sign in` text for one who is not
C29_QuotaMessageByAuthState ==
    (~consumer.response.ok /\ consumer.response.status = 429) =>
        consumer.error = IF consumer.response.isSignedIn THEN OwnKeyText ELSE SignInText

\* C30: whenever no store call is suspended, every item in memory and in the
\* database has the threadId of a thread that exists there; so no item of a
\* deleted thread remains, and none is added after the deletion by a pending
\* update or a late event
C30_ItemsBelongToThreads ==
    inflight = NoCall =>
        /\ \A i \in 1..Len(threadItems) : threadItems[i].threadId \in SeqToSet(threads)
        /\ \A id \in DOMAIN dbItems : dbItems[id].threadId \in dbThreads


\* the reducer has just applied a metrics event to the item
MetricsApplied == reducer'.last = "metrics" /\ reducer'.events = reducer.events + 1


FieldKept(f) ==
    /\ (f \in DOMAIN reducer'.item) = (f \in DOMAIN reducer.item)
    /\ f \in DOMAIN reducer.item => reducer'.item[f] = reducer.item[f]

CounterOf(item, f) == IF f \in DOMAIN item THEN item[f] ELSE Undefined

\* C31: a metrics event changes only the item's token and duration counters: its
\* answer, steps, sources, status and error stay as they were, and a counter
\* that the payload does not carry keeps its previous value
C31_MetricsFrame ==
    [][MetricsApplied =>
          /\ \A f \in {"text", "finalText", "steps", "sources", "status", "error"} : FieldKept(f)
          /\ reducer'.item.tokensUsed =
                IF "totalTokens" \in DOMAIN reducer'.payload THEN reducer'.payload.totalTokens
                ELSE CounterOf(reducer.item, "tokensUsed")
          /\ reducer'.item.generationDurationMs =
                IF "durationMs" \in DOMAIN reducer'.payload THEN reducer'.payload.durationMs
                ELSE CounterOf(reducer.item, "generationDurationMs")]_vars


\* the reducer has just applied a steps event to the item
StepsApplied == reducer'.last = "steps" /\ reducer'.made = reducer.made + 1

StepsOf(item) == IF "steps" \in DOMAIN item THEN item.steps ELSE << >>

\* C32: applying a steps event never removes from the item's steps mapping a step
\* id, or a sub-step of a step, that was recorded before the event
C32_StepsOnlyGrow ==
    [][StepsApplied =>
          \A id \in DOMAIN StepsOf(reducer.item) :
              /\ id \in DOMAIN StepsOf(reducer'.item)
              /\ DOMAIN StepsOf(reducer.item)[id].subSteps
                    \subseteq DOMAIN StepsOf(reducer'.item)[id].subSteps]_vars


Reported(status) == \E i \in 1..Len(task.emitted) :
                        "status" \in DOMAIN task.emitted[i] /\ task.emitted[i].status = status

\* C33: once the abort signal has fired during execute, the task starts no further
\* network call, and when it has returned it has reported ABORTED and has emitted
\* no error event with status ERROR
C33_AbortStopsTask ==
    task.aborted =>
        /\ task.startedSince = 0
        /\ task.pc = "returned" => Reported("ABORTED") /\ ~Reported("ERROR")


\* C34: when ensureProviderAvailability returns, the provider of the returned mode
\* has a key; changed is false exactly when the returned mode is the mode it was
\* given; and when changed is true the returned mode is served by the other
\* provider and the result carries a substitution message
C34_ReturnedModeHasKey ==
    (server.call.made /\ ~server.call.result.threw) =>
        LET call == server.call
            result == call.result
        IN  /\ getProviderForMode(result.mode) \in call.apiKeys
            /\ ~result.changed <=> result.mode = call.mode
            /\ result.changed =>
                  /\ getProviderForMode(result.mode) # getProviderForMode(call.mode)
                  /\ result.message # NoMessage

C34_Witness ==
    /\ server.call.made
    /\ ~server.call.result.threw
    /\ server.call.result.changed
    /\ getProviderForMode(server.call.mode) = "openrouter"


Selected == {branchSelections[root] : root \in DOMAIN branchSelections}

\* C35: after the tab has handled a thread-item-delete notification the item is
\* neither in threadItems nor a value of branchSelections, and after it has handled
\* a thread-delete notification the same holds of every item of that thread
C35_NotificationKeepsStateConsistent ==
    [][/\ \A threadId \in 1..MaxThreadId, id \in 1..MaxItemId :
             OnThreadItemDelete(threadId, id) =>
                 id \notin IdsOf(threadItems') /\ id \notin Selected'
       /\ \A threadId \in 1..MaxThreadId :
             OnThreadDelete(threadId) =>
                 \A i \in 1..Len(threadItems) :
                     threadItems[i].threadId = threadId =>
                         /\ threadItems[i].id \notin IdsOf(threadItems')
                         /\ threadItems[i].id \notin Selected']_vars


\* C36: runAgent terminates: once the body has errored for good, by an abort or by
\* a lost connection, the read loop is left and runAgent returns through finally
C36_ReadLoopTerminates == (loop.stream = "errored") ~> (loop.pc = "returned")


\* C37: no step puts back into db.threadItems the update that was queued for an
\* item when deleteThreadItem or removeFollowupThreadItems deleted it
C37_FlushSkipsDeletedItems ==
    [][\A id \in DOMAIN removed :
          id \notin DOMAIN dbItems =>
              ~(id \in DOMAIN dbItems' /\ dbItems'[id] = removed[id])]_vars


\* the sendMessage call put a done frame on the response
WroteDone(call) == WroteSomething(call) /\ WrittenPayload(call).type = "done"

\* C38: executeStream writes at most one done frame, the one sendMessage writes
\* in place of a payload it cannot serialize included, and writes nothing after it
C38_DoneIsLastFrame ==
    \A i, j \in 1..Len(sent) : (i < j /\ WroteDone(sent[i])) => ~WroteSomething(sent[j])


\* the keys of the blob that the setter is there to write
SettingsOf(setter) ==
    CASE setter = "setShowSuggestions" -> {"showSuggestions"}
      [] setter = "setUseWebSearch" -> {"useWebSearch"}
      [] setter = "setCustomInstructions" -> {"customInstructions"}
      [] setter = "setChatMode" -> {"chatMode"}
      [] setter = "setModel" -> {"model"}
      [] setter = "switchThread" -> {"model", "currentThreadId"}

\* C39: a setter that persists a setting leaves every other field of the persisted
\* configuration as it was
C39_OtherSettingsKept ==
    [][\A key \in DOMAIN config.blob \ SettingsOf(config'.last) :
          key \in DOMAIN config'.blob /\ config'.blob[key] = config.blob[key]]_vars


\* createThreadItem's put has resolved and its set() runs in this step
CreateSetRuns == inflight.op = "createThreadItem" /\ inflight'.op = "none"

\* C40: what updateThreadItem wrote to an item's status and answer while
\* createThreadItem was awaiting its put is still in the item after
\* createThreadItem's set()
C40_UpdateDuringCreateKept ==
    [][(CreateSetRuns /\ inflight.item.id \in IdsOf(threadItems)) =>
          LET current == FindItem(threadItems, inflight.item.id)
              after == FindItem(threadItems', inflight.item.id)
          IN  \A f \in {"status", "text", "finalText"} :
                  current[f] # inflight.before[f] => after[f] = current[f]]_vars

====
